---- MODULE Spec2Model ----
(***************************************************************************)
(* Dictator Battle: the interactive round state machine (Game), the        *)
(* headless batch (Simulation), and the RNG, outcome controller, physics   *)
(* and steering they share.                                                *)
(*                                                                         *)
(* Numbers.  The program computes in IEEE doubles.  Here every quantity is *)
(* a fixed-point integer:                                                  *)
(*   - positions are in 1/SCALE pixel, velocities in 1/SCALE pixel/second; *)
(*   - time is in units of 1/(60*FIXED_DT) second, so that one fixed step  *)
(*     is FIXED_DT units and a frame may be a fraction of a step;          *)
(*   - multipliers and probabilities are in percent;                       *)
(*   - a 32-bit word is the pair <<high 16 bits, low 16 bits>>;            *)
(*   - an RNG float in [0,1) is read through the high 16 bits of the word; *)
(*   - angles are in 1/ANGLE_UNITS of a turn.                              *)
(* Divisions round to nearest (RDiv); square roots round down (ISqrt).     *)
(***************************************************************************)
EXTENDS Integers, Sequences, FiniteSets, TLC

\* ------------------------------------------------------------------ units
\* Resolution of the fixed-point grid: units per pixel.
SCALE == 32

\* FIXED_DT = 1/60 s, in time units of 1/120 s.
FIXED_DT == 2

\* One second in time units.
SECOND == 60 * FIXED_DT

\* Angle units per full turn (2*PI).
ANGLE_UNITS == 4 * 16

\* 2^16, the size of one half of a 32-bit word.
W16 == 256 * 256

Abs(a) == IF a < 0 THEN -a ELSE a
Max(a, b) == IF a >= b THEN a ELSE b
Min(a, b) == IF a <= b THEN a ELSE b

\* a / b rounded to the nearest integer, half away from zero (b > 0).
RDiv(a, b) ==
    IF a >= 0 THEN (2 * a + b) \div (2 * b) ELSE -((2 * (-a) + b) \div (2 * b))

\* floor(sqrt(n)) by Newton's iteration from a start x >= sqrt(n).
RECURSIVE Newton(_, _)
Newton(n, x) ==
    LET y == (x + n \div x) \div 2
    IN  IF y >= x THEN x ELSE Newton(n, y)

ISqrt(n) ==
    IF n < 2 THEN n
    ELSE Newton(n, IF n < 65536 THEN 256 ELSE IF n < 1048576 THEN 1024
                   ELSE IF n < 16777216 THEN 4096 ELSE IF n < 268435456 THEN 16384
                   ELSE 46341)

\* Math.sqrt(dx*dx + dy*dy)
Hypot(dx, dy) == ISqrt(dx * dx + dy * dy)

\* cos over a quarter turn, times 1024, at the ANGLE_UNITS resolution.
CosTab == <<1024, 1019, 1004, 980, 946, 903, 851, 792, 724,
            650, 569, 483, 392, 297, 200, 100, 0>>

\* Math.cos(a) * 1024
Cos(a) ==
    LET q == ANGLE_UNITS \div 4
        m == a % ANGLE_UNITS
    IN  IF m <= q THEN CosTab[m + 1]
        ELSE IF m <= 2 * q THEN -CosTab[2 * q - m + 1]
        ELSE IF m <= 3 * q THEN -CosTab[m - 2 * q + 1]
        ELSE CosTab[4 * q - m + 1]

\* Math.sin(a) * 1024
Sin(a) == Cos(a + 3 * (ANGLE_UNITS \div 4))

\* -------------------------------------------------------------- Rng.ts
\* 32-bit words as <<hi, lo>>.
XorBit[a \in 0..15, b \in 0..15] ==
    LET bit(x, i) == (x \div (2 ^ i)) % 2
    IN  ((bit(a, 0) + bit(b, 0)) % 2) + 2 * ((bit(a, 1) + bit(b, 1)) % 2)
        + 4 * ((bit(a, 2) + bit(b, 2)) % 2) + 8 * ((bit(a, 3) + bit(b, 3)) % 2)

Xor16(a, b) ==
    XorBit[a % 16, b % 16]
    + 16 * XorBit[(a \div 16) % 16, (b \div 16) % 16]
    + 256 * XorBit[(a \div 256) % 16, (b \div 256) % 16]
    + 4096 * XorBit[a \div 4096, b \div 4096]

\* x ^ y
Xor32(x, y) == <<Xor16(x[1], y[1]), Xor16(x[2], y[2])>>

\* c | x for a constant c < 2^16
OrLow(x, c) == <<x[1], (x[2] + c + Xor16(x[2], c)) \div 2>>

\* (x + y) | 0
Add32(x, y) ==
    LET lo == x[2] + y[2]
    IN  <<(x[1] + y[1] + (lo \div W16)) % W16, lo % W16>>

\* x >>> k, 0 < k < 16
Shr32(x, k) ==
    <<x[1] \div (2 ^ k), (x[2] \div (2 ^ k)) + (x[1] % (2 ^ k)) * (2 ^ (16 - k))>>

MulMod16(a, b) == ((a % 256) * b + (((a \div 256) * b) % 256) * 256) % W16

\* Math.imul(x, y)
Imul32(x, y) ==
    LET p0 == (x[2] % 256) * y[2]
        p1 == (x[2] \div 256) * y[2]
        mid == (p1 % 256) * 256 + p0
        carry == (p1 \div 256) + (mid \div W16)
    IN  <<(carry + MulMod16(x[1], y[2]) + MulMod16(x[2], y[1])) % W16, mid % W16>>

\* 0x6d2b79f5
MULBERRY_INC == <<27947, 31221>>

\* new Rng(seed): state = seed.  `draws` counts the calls of next() (ghost).
NewRng(seed) == [seed |-> seed, state |-> seed, draws |-> 0]

\* The three statements of next() that mix the new state s into the result.
NextMix1(s) == Imul32(Xor32(s, Shr32(s, 15)), OrLow(s, 1))
NextMix2(t) == Xor32(Add32(t, Imul32(Xor32(t, Shr32(t, 7)), OrLow(t, 61))), t)
NextMix3(t) == Xor32(t, Shr32(t, 14))

\* Rng.next(): the advanced generator and the word whose value / 2^32 is returned.
RngNext(rng) ==
    LET s == Add32(rng.state, MULBERRY_INC)
    IN  [rng |-> [rng EXCEPT !.state = s, !.draws = @ + 1],
         word |-> NextMix3(NextMix2(NextMix1(s)))]

\* Two calls of next() in a row: the words w1, w2 and the generator after them.
SecondDraw(r1) ==
    LET r2 == RngNext(r1.rng)
    IN  [w1 |-> r1.word, w2 |-> r2.word, rng |-> r2.rng]

TwoDraws(rng) == SecondDraw(RngNext(rng))

\* A reset() that leaves the state where the calls of next() brought it.
RngResetKeepsState(rng) == rng

\* Rng.reset()
RngReset(rng) == [rng EXCEPT !.state = rng.seed]

\* min + next() * (max - min), for integer min, max in the caller's unit.
RangeOf(word, min, max) == min + (word[1] * (max - min)) \div W16

\* next() < p / 100, exactly: (hi * 2^16 + lo) * 100 < p * 2^32.
WordBelowPercent(word, p) ==
    LET d == p * W16 - word[1] * 100
    IN  IF d >= 100 THEN TRUE
        ELSE IF d <= 0 THEN FALSE
        ELSE word[2] * 100 < d * W16

\* A seed input is <<>> (the empty string) or <<n>> (the decimal string of n).
\* parseSeed(raw): undefined for the empty input, else n >>> 0.
Undefined == <<>>
parseSeed(raw) ==
    IF raw = <<>> THEN Undefined ELSE <<(raw[1] \div W16) % W16, raw[1] % W16>>

\* ------------------------------------------------- OutcomeController.ts
\* DEFAULT_BIAS; the multiplier bonuses are in percent.
knifeAttractionWin == 60
knifeAttractionLose == -40
hunterBonusWin == 10
hunterPenaltyLose == -10
runnerBonusWin == 10
runnerPenaltyLose == -10
speedBonusWin == 3
speedPenaltyLose == -3

\* An outcome controller is [winChance (percent), targetWin].
NewOutcomeController(winChance) == [winChance |-> winChance, targetWin |-> FALSE]

setWinChance(oc, p) == [oc EXCEPT !.winChance = Max(0, Min(100, p))]

\* sampleOutcome(rng): one draw; returns the controller and the advanced rng.
sampleOutcome(oc, rng) ==
    LET r == RngNext(rng)
    IN  [outcome |-> [oc EXCEPT !.targetWin = WordBelowPercent(r.word, oc.winChance)],
         rng |-> r.rng]

knifeAttractionStrength(oc) ==
    IF oc.targetWin THEN knifeAttractionWin ELSE knifeAttractionLose

\* in percent
steeringMultiplier(oc, isHunter) ==
    IF isHunter
    THEN 100 + (IF oc.targetWin THEN hunterBonusWin ELSE hunterPenaltyLose)
    ELSE 100 + (IF oc.targetWin THEN runnerBonusWin ELSE runnerPenaltyLose)

\* in percent
speedMultiplier(oc) ==
    100 + (IF oc.targetWin THEN speedBonusWin ELSE speedPenaltyLose)

\* --------------------------------------------------------------- Arena.ts
NewArena(x, y, size) ==
    [left |-> x, right |-> x + size, top |-> y, bottom |-> y + size,
     centerX |-> x + size \div 2, centerY |-> y + size \div 2]

\* -------------------------------------------------------------- Entity.ts
\* An entity is a record with at least pos, vel (pairs) and radius.
Speed(e) == Hypot(e.vel[1], e.vel[2])

setVelocityAngle(e, angle, speed) ==
    [e EXCEPT !.vel = <<RDiv(Cos(angle) * speed, 1024), RDiv(Sin(angle) * speed, 1024)>>]

\* No-op if the speed is below 0.0001 (here: zero on the grid).
normalizeSpeed(e, targetSpeed) ==
    LET s == Speed(e)
    IN  IF s * 10000 < SCALE THEN e
        ELSE [e EXCEPT !.vel = <<RDiv(e.vel[1] * targetSpeed, s),
                                 RDiv(e.vel[2] * targetSpeed, s)>>]

\* ------------------------------------------------------------- Physics.ts
integrateEntity(e, dt) ==
    [e EXCEPT !.pos = <<e.pos[1] + RDiv(e.vel[1] * dt, SECOND),
                        e.pos[2] + RDiv(e.vel[2] * dt, SECOND)>>]

\* A bounceWalls that knows the left and top walls only.
BounceAxisLowOnly(p, v, r, lo, hi) == IF p - r < lo THEN <<lo + r, Abs(v)>> ELSE <<p, v>>

\* A bounceWalls that flips the sign of the velocity whatever it is.
BounceAxisFlips(p, v, r, lo, hi) ==
    IF p - r < lo THEN <<lo + r, -v>>
    ELSE IF p + r > hi THEN <<hi - r, -v>>
    ELSE <<p, v>>

\* One axis of bounceWalls: <<position, velocity>> after the bounce.
BounceAxis(p, v, r, lo, hi) ==
    IF p - r < lo THEN <<lo + r, Abs(v)>>
    ELSE IF p + r > hi THEN <<hi - r, -Abs(v)>>
    ELSE <<p, v>>

bounceWalls(e, arena) ==
    LET bx == BounceAxis(e.pos[1], e.vel[1], e.radius, arena.left, arena.right)
        by == BounceAxis(e.pos[2], e.vel[2], e.radius, arena.top, arena.bottom)
    IN  [e EXCEPT !.pos = <<bx[1], by[1]>>, !.vel = <<bx[2], by[2]>>]

\* dist <= r, decided on the squares
WithinDist(dx, dy, r) == dx * dx + dy * dy <= r * r

\* A bounceEntities that moves only b, by half the overlap.
bounceEntitiesMovesB(a, b) ==
    LET dx == b.pos[1] - a.pos[1]
        dy == b.pos[2] - a.pos[2]
        dist == Hypot(dx, dy)
        minDist == a.radius + b.radius
    IN  IF dx * dx + dy * dy >= minDist * minDist \/ dist * 10000 < SCALE
        THEN [a |-> a, b |-> b, hit |-> FALSE]
        ELSE [a |-> a,
              b |-> [b EXCEPT !.pos = <<b.pos[1] + RDiv(dx * (minDist - dist), 2 * dist),
                                        b.pos[2] + RDiv(dy * (minDist - dist), 2 * dist)>>],
              hit |-> TRUE]

\* bounceEntities(a, b): [a, b, hit]
bounceEntities(a, b) ==
    LET dx == b.pos[1] - a.pos[1]
        dy == b.pos[2] - a.pos[2]
        d2 == dx * dx + dy * dy
        dist == ISqrt(d2)
        minDist == a.radius + b.radius
    IN  IF d2 >= minDist * minDist \/ dist * 10000 < SCALE
        THEN [a |-> a, b |-> b, hit |-> FALSE]
        ELSE LET overlap == minDist - dist
                 px == RDiv(dx * overlap, 2 * dist)
                 py == RDiv(dy * overlap, 2 * dist)
                 dot == RDiv((a.vel[1] - b.vel[1]) * dx + (a.vel[2] - b.vel[2]) * dy, dist)
                 ix == IF dot > 0 THEN RDiv(dot * dx, dist) ELSE 0
                 iy == IF dot > 0 THEN RDiv(dot * dy, dist) ELSE 0
             IN  [a |-> [a EXCEPT !.pos = <<a.pos[1] - px, a.pos[2] - py>>,
                                  !.vel = <<a.vel[1] - ix, a.vel[2] - iy>>],
                  b |-> [b EXCEPT !.pos = <<b.pos[1] + px, b.pos[2] + py>>,
                                  !.vel = <<b.vel[1] + ix, b.vel[2] + iy>>],
                  hit |-> TRUE]

entityDistance(a, b) == Hypot(b.pos[1] - a.pos[1], b.pos[2] - a.pos[2])

\* entityDistance(a, b) <= a.radius + b.radius
entitiesOverlap(a, b) ==
    WithinDist(b.pos[1] - a.pos[1], b.pos[2] - a.pos[2], a.radius + b.radius)

\* ------------------------------------------------------------------ Ai.ts
\* Impulses per second, in pixels/second.
MAX_WANDER_IMPULSE == 80
MAX_HUNT_IMPULSE == 200
MAX_EVADE_IMPULSE == 200
MAX_KNIFE_SEEK_IMPULSE == 200
\* radians per second; tan(TURN_RATE_CAP * dt) is taken as TURN_RATE_CAP * dt
TURN_RATE_CAP == 3

\* 0.4, the half-width of the evade jitter, in thousandths
EVADE_JITTER == 400

\* applyImpulse(entity, ix, iy, dt, impulseMul): (ix, iy) in velocity units per
\* second, impulseMul in percent.
applyImpulse(e, ix, iy, dt, impulseMul) ==
    LET scaledX == RDiv(ix * impulseMul * dt, 100 * SECOND)
        scaledY == RDiv(iy * impulseMul * dt, 100 * SECOND)
        vx == e.vel[1] + scaledX
        vy == e.vel[2] + scaledY
        spd2 == vx * vx + vy * vy
        spd == ISqrt(spd2)
        \* perpComp * spd
        cross == scaledX * (-vy) + scaledY * vx
    IN  IF spd * 1000 > SCALE /\ Abs(cross) * SECOND > spd2 * TURN_RATE_CAP * dt
        THEN \* factor = clamp / perpComp, times 1024
             LET factor == RDiv(spd2 * TURN_RATE_CAP * dt,
                                Max(1, RDiv(SECOND * Abs(cross), 1024)))
             IN  [e EXCEPT !.vel = <<vx - scaledX + RDiv(scaledX * factor, 1024),
                                     vy - scaledY + RDiv(scaledY * factor, 1024)>>]
        ELSE [e EXCEPT !.vel = <<vx, vy>>]

\* applyWanderSteering after its two draws d (angle, magnitude).
WanderWith(e, d, dt, impulseMul) ==
    LET angle == RangeOf(d.w1, 0, ANGLE_UNITS)
        magnitude == RDiv(RangeOf(d.w2, 0, MAX_WANDER_IMPULSE * SCALE) * impulseMul, 100)
    IN  [e |-> applyImpulse(e, RDiv(Cos(angle) * magnitude, 1024),
                               RDiv(Sin(angle) * magnitude, 1024), dt, 100),
         rng |-> d.rng]

\* applyWanderSteering(entity, rng, dt, impulseMul): two draws (angle, magnitude).
applyWanderSteering(e, rng, dt, impulseMul) == WanderWith(e, TwoDraws(rng), dt, impulseMul)

\* applyKnifeSeekSteering(entity, knifeX, knifeY, dt, biasDelta): biasDelta in
\* velocity units per second.
applyKnifeSeekSteering(e, knifeX, knifeY, dt, biasDelta) ==
    LET dx == knifeX - e.pos[1]
        dy == knifeY - e.pos[2]
        dist == Hypot(dx, dy)
        strength == MAX_KNIFE_SEEK_IMPULSE * SCALE + biasDelta
    IN  IF dist * 1000 < SCALE THEN e
        ELSE applyImpulse(e, RDiv(dx * strength, dist), RDiv(dy * strength, dist), dt, 100)

\* applyHunterSteering(hunter, target, dt, impulseMul)
applyHunterSteering(hunter, target, dt, impulseMul) ==
    LET dx == target.pos[1] - hunter.pos[1]
        dy == target.pos[2] - hunter.pos[2]
        dist == Hypot(dx, dy)
    IN  IF dist * 1000 < SCALE THEN hunter
        ELSE applyImpulse(hunter, RDiv(dx * MAX_HUNT_IMPULSE * SCALE, dist),
                          RDiv(dy * MAX_HUNT_IMPULSE * SCALE, dist), dt, impulseMul)

\* (nx + (-ny) * perp, ny + nx * perp) * impulse, for perp in thousandths and
\* impulse in pixels/second.
EvadeVector(dx, dy, dist, perp, impulse) ==
    <<RDiv(RDiv(dx * 1000 - dy * perp, 10) * ((impulse * SCALE) \div 100), dist),
      RDiv(RDiv(dy * 1000 + dx * perp, 10) * ((impulse * SCALE) \div 100), dist)>>

\* applyRunnerSteering, with r the draw rng.next() it makes unless it returns early.
RunnerWith(runner, pursuer, rng, r, dt, impulseMul) ==
    LET dx == runner.pos[1] - pursuer.pos[1]
        dy == runner.pos[2] - pursuer.pos[2]
        dist == Hypot(dx, dy)
        perp == RangeOf(r.word, -EVADE_JITTER, EVADE_JITTER)
        ev == EvadeVector(dx, dy, dist, perp, MAX_EVADE_IMPULSE)
    IN  IF dist * 1000 < SCALE THEN [e |-> runner, rng |-> rng]
        ELSE [e |-> applyImpulse(runner, ev[1], ev[2], dt, impulseMul), rng |-> r.rng]

\* applyRunnerSteering(runner, pursuer, rng, dt, impulseMul): one draw (the jitter),
\* none when the two centres coincide.
applyRunnerSteering(runner, pursuer, rng, dt, impulseMul) ==
    RunnerWith(runner, pursuer, rng, RngNext(rng), dt, impulseMul)

\* ----------------------------------------------------- Knife.ts, Economy.ts
KNIFE_RADIUS == 20

\* new Knife(x, y); `visible` is container.visible.
NewKnife(x, y) ==
    [pos |-> <<x, y>>, radius |-> KNIFE_RADIUS * SCALE, pickedUp |-> FALSE, visible |-> TRUE]

\* PAYOUT_MULTIPLIER = 1.9, in tenths
PAYOUT_MULTIPLIER == 19
STARTING_BALANCE == 1000

\* Money is in hundredths of a FUN.
NewEconomy(startingBalance) == [balance |-> startingBalance * 100, lastBet |-> 0]

\* A placeBet that deducts whatever the balance.
placeBetUnchecked(eco, amount) ==
    [ok |-> TRUE, economy |-> [balance |-> eco.balance - amount, lastBet |-> amount]]

\* placeBet(amount): [ok, economy]
placeBet(eco, amount) ==
    IF amount > eco.balance THEN [ok |-> FALSE, economy |-> eco]
    ELSE [ok |-> TRUE, economy |-> [balance |-> eco.balance - amount, lastBet |-> amount]]

\* Math.floor(lastBet * PAYOUT_MULTIPLIER * 100) / 100
winPayout(eco) == (eco.lastBet * PAYOUT_MULTIPLIER) \div 10

\* An applyWin that credits the payout twice.
applyWinTwice(eco) == [eco EXCEPT !.balance = @ + 2 * winPayout(eco)]

applyWin(eco) == [eco EXCEPT !.balance = @ + winPayout(eco)]

\* ------------------------------------------------------------ Dictator.ts
DICTATOR_CONFIGS == <<"arafat", "hussein", "gaddafi", "lukashenko">>

\* new Dictator(config, radius, isPlayer)
NewDictator(config, radius, isPlayer) ==
    [config |-> config, isPlayer |-> isPlayer, pos |-> <<0, 0>>, vel |-> <<0, 0>>,
     radius |-> radius, role |-> "none", baseSpeed |-> 120 * SCALE, speedMul |-> 100]

setRole(d, role) == [d EXCEPT !.role = role]

\* baseSpeed * speedMul
currentSpeed(d) == RDiv(d.baseSpeed * d.speedMul, 100)

\* ------------------------------------------------------------------ Ui.ts
NewUi ==
    [status |-> "ready", phase |-> "ready", seed |-> Undefined, balance |-> 0,
     popupVisible |-> FALSE, popup |-> "none", autoCloseTimer |-> FALSE]

setStatus(ui, status) == [ui EXCEPT !.status = status]
setPhase(ui, label) == [ui EXCEPT !.phase = label]
setSeed(ui, seed) == [ui EXCEPT !.seed = seed]
setBalance(ui, balance) == [ui EXCEPT !.balance = balance]

\* _openPopup: a pending auto-close timer is cleared and a new one is set.
openPopup(ui, kind) ==
    [ui EXCEPT !.popupVisible = TRUE, !.popup = kind, !.autoCloseTimer = TRUE]

\* _closePopup
closePopup(ui) == [ui EXCEPT !.popupVisible = FALSE, !.autoCloseTimer = FALSE]

\* ---------------------------------------------------------------- Game.ts
CANVAS_SIZE == 560
ARENA_PADDING == 20
BALL_RADIUS == 28
BASE_SPEED == 120
CHASE_SPEED_MUL == 2
PREWAIT_DURATION == SECOND
PREKNIFE_DURATION == (3 * SECOND) \div 2
CHASE_DURATION == 10 * SECOND

\* radians (in thousandths) to angle units
AngleOf(mrad) == RDiv(mrad * ANGLE_UNITS, 6283)

\* _buildArena for a screen of width w and height h (pixels)
buildArena(w, h) ==
    LET size == Min(w, h) - ARENA_PADDING * 2
    IN  NewArena(((w - size) \div 2) * SCALE, ((h - size) \div 2) * SCALE, size * SCALE)

\* The Game after its constructor.  rng is unset until the first play.
NewGame ==
    [arena |-> buildArena(CANVAS_SIZE, CANVAS_SIZE),
     dictators |-> <<NewDictator(DICTATOR_CONFIGS[1], BALL_RADIUS * SCALE, TRUE),
                     NewDictator(DICTATOR_CONFIGS[2], BALL_RADIUS * SCALE, FALSE)>>,
     knife |-> <<>>,
     economy |-> NewEconomy(STARTING_BALANCE),
     rng |-> [seed |-> Undefined, state |-> Undefined, draws |-> 0],
     outcome |-> NewOutcomeController(50),
     ui |-> setBalance(NewUi, STARTING_BALANCE * 100),
     phase |-> "idle", phaseTimer |-> 0, accumulator |-> 0, speedScale |-> 1,
     playerDictId |-> "arafat", lastBet |-> 1000, knifePickedUp |-> FALSE]

\* _cleanupKnife
cleanupKnife(g) ==
    [g EXCEPT !.knife = IF g.knife = <<>> THEN <<>>
                        ELSE <<[g.knife[1] EXCEPT !.visible = FALSE, !.pickedUp = FALSE]>>,
              !.knifePickedUp = FALSE]

\* _pickOpponent(playerConfig): one draw; [config, rng]
pickOpponent(rng, playerConfig) ==
    LET others == SelectSeq(DICTATOR_CONFIGS, LAMBDA d : d # playerConfig)
        r == RngNext(rng)
    IN  [config |-> others[RangeOf(r.word, 0, Len(others)) + 1], rng |-> r.rng]

\* _startRound, with the value the phase timer is set to
startRoundWith(g0, timer) ==
    LET g == cleanupKnife(g0)
        opp == pickOpponent(g.rng, g.playerDictId)
        r1 == RngNext(opp.rng)
        r2 == RngNext(r1.rng)
        cx == g.arena.centerX
        cy == g.arena.centerY
        sep == BALL_RADIUS * 3 * SCALE
        angle1 == RangeOf(r1.word, 0, ANGLE_UNITS)
        angle2 == angle1 + ANGLE_UNITS \div 2 + RangeOf(r2.word, -AngleOf(500), AngleOf(500))
        dPlayer == [NewDictator(g.playerDictId, BALL_RADIUS * SCALE, TRUE)
                      EXCEPT !.speedMul = speedMultiplier(g.outcome), !.pos = <<cx - sep, cy>>]
        dOpponent == [NewDictator(opp.config, BALL_RADIUS * SCALE, FALSE)
                      EXCEPT !.speedMul = 100, !.pos = <<cx + sep, cy>>]
    IN  [g EXCEPT !.dictators =
                      <<setRole(setVelocityAngle(dPlayer, angle1, BASE_SPEED * SCALE), "none"),
                        setRole(setVelocityAngle(dOpponent, angle2, BASE_SPEED * SCALE), "none")>>,
                  !.rng = r2.rng,
                  !.phase = "prewait",
                  !.phaseTimer = timer,
                  !.accumulator = 0,
                  !.ui = setPhase(g.ui, "prewait")]

\* A _startRound that leaves the phase timer as the last round left it.
startRoundKeepsTimer(g0) == startRoundWith(g0, g0.phaseTimer)

\* _startRound
startRound(g0) == startRoundWith(g0, PREWAIT_DURATION)

\* _onPlay(state): state = [selectedDictatorId, betAmount, winChance, seedInput];
\* randomSeed is what Math.random() supplies when no seed is entered.
\* _onPlay after its phase guard
onPlayAccepted(g, state, randomSeed) ==
    LET bet == placeBet(g.economy, state.betAmount)
        seedVal == parseSeed(state.seedInput)
        rng == NewRng(IF seedVal = Undefined THEN randomSeed ELSE seedVal)
        oc == sampleOutcome(setWinChance(g.outcome, state.winChance), rng)
    IN  IF ~bet.ok THEN g
        ELSE startRound([g EXCEPT !.economy = bet.economy,
                                  !.lastBet = state.betAmount,
                                  !.playerDictId = state.selectedDictatorId,
                                  !.outcome = oc.outcome,
                                  !.rng = oc.rng,
                                  !.ui = setStatus(setBalance(setSeed(g.ui, rng.seed),
                                                              bet.economy.balance),
                                                   "running")])

\* An _onPlay without the phase guard.
onPlayInAnyPhase(g, state, randomSeed) == onPlayAccepted(g, state, randomSeed)

\* An _onPlay that samples the outcome after _startRound has drawn from the stream.
onPlaySamplesLast(g, state, randomSeed) ==
    IF g.phase # "idle" /\ g.phase # "ended" THEN g
    ELSE LET g1 == onPlayAccepted(g, state, randomSeed)
             seedVal == parseSeed(state.seedInput)
             rng == NewRng(IF seedVal = Undefined THEN randomSeed ELSE seedVal)
             r3 == RngNext(RngNext(RngNext(rng).rng).rng).rng
             oc == sampleOutcome(setWinChance(g.outcome, state.winChance), r3)
         IN  [g1 EXCEPT !.outcome = oc.outcome, !.rng.draws = oc.rng.draws]

\* _onPlay(state)
onPlay(g, state, randomSeed) ==
    IF g.phase # "idle" /\ g.phase # "ended" THEN g
    ELSE onPlayAccepted(g, state, randomSeed)

\* The dictator at index i and the generator, as a steering call that returned
\* w = [e, rng] leaves them.
Steered(g, i, w) == [g EXCEPT !.dictators[i] = w.e, !.rng = w.rng]

\* applyWanderSteering(d, this.rng, dt, impulseMul) on the dictator at index i
wanderDictator(g, i, dt, impulseMul) ==
    Steered(g, i, applyWanderSteering(g.dictators[i], g.rng, dt, impulseMul))

\* The end of _tickPrewait: if (this.phaseTimer <= 0) ...
prewaitEnd(g) ==
    IF g.phaseTimer <= 0
    THEN [g EXCEPT !.phase = "preknife", !.phaseTimer = PREKNIFE_DURATION]
    ELSE g

\* A _tickPrewait that hands over to the knife race.
tickPrewaitSkipsPreknife(g, dt) ==
    LET timer == g.phaseTimer - dt
    IN  [g EXCEPT !.phase = IF timer <= 0 THEN "kniferace" ELSE g.phase,
                  !.phaseTimer = timer]

\* _tickPrewait
tickPrewait(g, dt) ==
    prewaitEnd(wanderDictator(wanderDictator(
        [g EXCEPT !.phaseTimer = @ - dt, !.ui = setPhase(g.ui, "prewait")],
        1, dt, 50), 2, dt, 50))

\* _spawnKnife
spawnKnife(g) ==
    LET cx == g.arena.centerX
        cy == g.arena.centerY
    IN  [g EXCEPT !.knife = IF g.knife = <<>> THEN <<NewKnife(cx, cy)>>
                            ELSE <<[g.knife[1] EXCEPT !.pos = <<cx, cy>>,
                                                      !.pickedUp = FALSE,
                                                      !.visible = TRUE]>>,
                  !.knifePickedUp = FALSE,
                  !.phase = "kniferace",
                  !.ui = setPhase(g.ui, "knifeSpawned")]

\* The end of _tickPreknife: if (this.phaseTimer <= 0) this._spawnKnife()
preknifeEnd(g) == IF g.phaseTimer <= 0 THEN spawnKnife(g) ELSE g

\* _tickPreknife
tickPreknife(g, dt) ==
    preknifeEnd(wanderDictator(wanderDictator(
        [g EXCEPT !.phaseTimer = @ - dt, !.ui = setPhase(g.ui, "preknife")],
        1, dt, 100), 2, dt, 100))

\* An _assignRoles that takes the runner at the hunter's index.
assignRolesSameIndex(g, hunterIdx) ==
    [g EXCEPT !.knifePickedUp = TRUE,
              !.dictators[hunterIdx] = setRole(@, "runner"),
              !.phase = "chase",
              !.phaseTimer = CHASE_DURATION]

\* An _assignRoles that leaves the knife on the stage.
assignRolesKnifeShown(g, hunterIdx) ==
    LET chaseSpeed == BASE_SPEED * CHASE_SPEED_MUL * SCALE
        withRole(i) == [setRole(g.dictators[i],
                                IF i = hunterIdx THEN "hunter" ELSE "runner")
                          EXCEPT !.baseSpeed = chaseSpeed]
        dA == withRole(1)
        dB == withRole(2)
    IN  [g EXCEPT !.knifePickedUp = TRUE,
                  !.dictators = <<normalizeSpeed(dA, currentSpeed(dA)),
                                  normalizeSpeed(dB, currentSpeed(dB))>>,
                  !.phase = "chase",
                  !.phaseTimer = CHASE_DURATION,
                  !.ui = setPhase(g.ui, "chase")]

\* _assignRoles(hunterIdx), hunterIdx in {1, 2}
assignRoles(g, hunterIdx) ==
    LET chaseSpeed == BASE_SPEED * CHASE_SPEED_MUL * SCALE
        withRole(i) == [setRole(g.dictators[i],
                                IF i = hunterIdx THEN "hunter" ELSE "runner")
                          EXCEPT !.baseSpeed = chaseSpeed]
        dA == withRole(1)
        dB == withRole(2)
    IN  [g EXCEPT !.knifePickedUp = TRUE,
                  !.knife = IF g.knife = <<>> THEN <<>>
                            ELSE <<[g.knife[1] EXCEPT !.visible = FALSE]>>,
                  !.dictators = <<normalizeSpeed(dA, currentSpeed(dA)),
                                  normalizeSpeed(dB, currentSpeed(dB))>>,
                  !.phase = "chase",
                  !.phaseTimer = CHASE_DURATION,
                  !.ui = setPhase(g.ui, "chase")]

\* A pickup rule that leaves the radii out: a centre has to be on the knife.
PickupHunterCentreOnly(dA, dB, kx, ky, pickupRadius) ==
    IF dA.pos = <<kx, ky>> THEN 1 ELSE IF dB.pos = <<kx, ky>> THEN 2 ELSE 0

\* A pickup rule that gives a tie to the first body.
PickupHunterTieFirst(dA, dB, kx, ky, pickupRadius) ==
    LET ax == dA.pos[1] - kx
        ay == dA.pos[2] - ky
        bx == dB.pos[1] - kx
        by == dB.pos[2] - ky
    IN  IF WithinDist(ax, ay, pickupRadius) \/ WithinDist(bx, by, pickupRadius)
        THEN (IF ax * ax + ay * ay <= bx * bx + by * by THEN 1 ELSE 2)
        ELSE 0

\* The pickup rule of _tickKnifeRace: 0 for no pickup, else the hunter's index.
PickupHunter(dA, dB, kx, ky, pickupRadius) ==
    LET ax == dA.pos[1] - kx
        ay == dA.pos[2] - ky
        bx == dB.pos[1] - kx
        by == dB.pos[2] - ky
    IN  IF WithinDist(ax, ay, pickupRadius) \/ WithinDist(bx, by, pickupRadius)
        THEN (IF ax * ax + ay * ay < bx * bx + by * by THEN 1 ELSE 2)
        ELSE 0

\* biasDelta of _tickKnifeRace: knifeAttractionStrength() * 0.1
biasDelta(oc) == RDiv(knifeAttractionStrength(oc) * SCALE, 10)

\* The two applyKnifeSeekSteering calls of _tickKnifeRace.
knifeSeek(g, dt) ==
    LET kx == g.knife[1].pos[1]
        ky == g.knife[1].pos[2]
    IN  [g EXCEPT !.dictators =
                      <<applyKnifeSeekSteering(g.dictators[1], kx, ky, dt,
                                               biasDelta(g.outcome)),
                        applyKnifeSeekSteering(g.dictators[2], kx, ky, dt, 0)>>]

\* A pickup check that looks at the player's dictator only.
knifePickupPlayerOnly(g) ==
    IF WithinDist(g.dictators[1].pos[1] - g.knife[1].pos[1],
                  g.dictators[1].pos[2] - g.knife[1].pos[2],
                  BALL_RADIUS * SCALE + g.knife[1].radius)
    THEN assignRoles(g, 1) ELSE g

\* The pickup check of _tickKnifeRace.
knifePickup(g) ==
    LET hunterIdx == PickupHunter(g.dictators[1], g.dictators[2],
                                  g.knife[1].pos[1], g.knife[1].pos[2],
                                  BALL_RADIUS * SCALE + g.knife[1].radius)
    IN  IF hunterIdx # 0 THEN assignRoles(g, hunterIdx) ELSE g

\* _tickKnifeRace
tickKnifeRace(g, dt) ==
    IF g.knife = <<>> THEN g ELSE knifePickup(knifeSeek(g, dt))

\* An _endRound that leaves the status badge as it was.
endRoundKeepsStatus(g, playerWon) ==
    [g EXCEPT !.phase = "ended", !.ui = setPhase(g.ui, "ready")]

\* _endRound(playerWon)
endRound(g, playerWon) ==
    IF playerWon
    THEN LET eco == applyWin(g.economy)
         IN  [g EXCEPT !.phase = "ended",
                       !.economy = eco,
                       !.ui = setPhase(openPopup(setBalance(setStatus(g.ui, "win"),
                                                            eco.balance), "win"), "ready")]
    ELSE [g EXCEPT !.phase = "ended",
                   !.ui = setPhase(openPopup(setBalance(setStatus(g.ui, "lose"),
                                                        g.economy.balance), "lose"), "ready")]

\* The index of the first dictator with the role, 0 if there is none.
FindRole(ds, role) ==
    IF ds[1].role = role THEN 1 ELSE IF ds[2].role = role THEN 2 ELSE 0

\* The exit of _tickChase: "capture", "timeout" or "none".
ChaseExit(hunter, runner, timer) ==
    IF entitiesOverlap(hunter, runner) THEN "capture"
    ELSE IF timer <= 0 THEN "timeout"
    ELSE "none"

\* playerSteerMul of _tickChase, in percent
playerSteerMul(g) == steeringMultiplier(g.outcome, g.dictators[1].role = "hunter")

\* An applyHunterSteering call that gives the player's multiplier to the hunter,
\* whichever dictator it is.
chaseHunterBiased(g, dt) ==
    LET h == FindRole(g.dictators, "hunter")
        r == FindRole(g.dictators, "runner")
    IN  [g EXCEPT !.dictators[h] =
                      applyHunterSteering(g.dictators[h], g.dictators[r], dt,
                                          playerSteerMul(g))]

\* applyHunterSteering(hunter, runner, dt, hunterMul)
chaseHunter(g, dt) ==
    LET h == FindRole(g.dictators, "hunter")
        r == FindRole(g.dictators, "runner")
    IN  [g EXCEPT !.dictators[h] =
                      applyHunterSteering(g.dictators[h], g.dictators[r], dt,
                                          IF h = 1 THEN playerSteerMul(g) ELSE 100)]

\* applyRunnerSteering(runner, hunter, this.rng, dt, runnerMul)
chaseRunner(g, dt) ==
    LET h == FindRole(g.dictators, "hunter")
        r == FindRole(g.dictators, "runner")
    IN  Steered(g, r, applyRunnerSteering(g.dictators[r], g.dictators[h], g.rng, dt,
                                          IF r = 1 THEN playerSteerMul(g) ELSE 100))

\* A _tickChase whose exits hand the round to the target outcome.
chaseEndForced(g) ==
    LET h == FindRole(g.dictators, "hunter")
        r == FindRole(g.dictators, "runner")
        exit == ChaseExit(g.dictators[h], g.dictators[r], g.phaseTimer)
    IN  IF exit = "none" THEN g ELSE endRound(g, g.outcome.targetWin)

\* The capture check and the timer check of _tickChase.
chaseEnd(g) ==
    LET h == FindRole(g.dictators, "hunter")
        r == FindRole(g.dictators, "runner")
        exit == ChaseExit(g.dictators[h], g.dictators[r], g.phaseTimer)
    IN  IF exit = "capture" THEN endRound(g, h = 1)
        ELSE IF exit = "timeout" THEN endRound(g, r = 1)
        ELSE g

\* A _tickChase that leaves the phase timer alone.
tickChaseKeepsTimer(g, dt) ==
    chaseEnd(chaseRunner(chaseHunter([g EXCEPT !.ui = setPhase(g.ui, "chase")], dt), dt))

\* _tickChase
tickChase(g, dt) ==
    chaseEnd(chaseRunner(chaseHunter(
        [g EXCEPT !.phaseTimer = @ - dt, !.ui = setPhase(g.ui, "chase")], dt), dt))

\* A per-dictator block that integrates before it renormalises the speed.
MoveDictatorIntegrateFirst(d, dt, arena) ==
    bounceWalls(normalizeSpeed(integrateEntity(d, dt), currentSpeed(d)), arena)

\* The part of _tick after the phase's own step: each dictator is normalised,
\* integrated and bounced off the walls, then the two are bounced off each other.
MoveDictator(d, dt, arena) ==
    bounceWalls(integrateEntity(normalizeSpeed(d, currentSpeed(d)), dt), arena)

\* The switch of _tick.
tickPhase(g, dt) ==
    CASE g.phase = "prewait" -> tickPrewait(g, dt)
      [] g.phase = "preknife" -> tickPreknife(g, dt)
      [] g.phase = "kniferace" -> tickKnifeRace(g, dt)
      [] g.phase = "chase" -> tickChase(g, dt)
      [] OTHER -> g

\* The two dictators as bounceEntities returned them.
Bounced(g, be) == [g EXCEPT !.dictators = <<be.a, be.b>>]

\* _tick after the switch: nothing more if the round has ended.
tickMove(g, dt) ==
    IF g.phase = "ended" THEN g
    ELSE Bounced(g, bounceEntities(MoveDictator(g.dictators[1], dt, g.arena),
                                   MoveDictator(g.dictators[2], dt, g.arena)))

\* A _tick that steps by dt times the speed scale.
tickScaled(g, dt) == tickMove(tickPhase(g, dt * g.speedScale), dt * g.speedScale)

\* _tick(dt)
tick(g, dt) == tickMove(tickPhase(g, dt), dt)

\* ---------------------------------------------------------- Simulation.ts
SIM_BASE_SPEED == 120
SIM_CHASE_SPEED_MUL == 2
SIM_PREWAIT_DURATION == SECOND
SIM_PREKNIFE_DURATION == 3 * SECOND
SIM_CHASE_DURATION == 10 * SECOND
SIM_BALL_RADIUS == 28
SIM_KNIFE_RADIUS == 20
SIM_FIXED_DT == FIXED_DT
ARENA_SIZE == 520
\* PAYOUT_MUL = 1.9, in tenths
PAYOUT_MUL == 19

\* Math.ceil((PREWAIT_DURATION + PREKNIFE_DURATION + CHASE_DURATION + 5) / FIXED_DT)
MAX_TICKS ==
    (SIM_PREWAIT_DURATION + SIM_PREKNIFE_DURATION + SIM_CHASE_DURATION + 5 * SECOND
       + SIM_FIXED_DT - 1) \div SIM_FIXED_DT

\* The arena literal of runSimulation.
SimArena ==
    [left |-> 0, right |-> ARENA_SIZE * SCALE, top |-> 0, bottom |-> ARENA_SIZE * SCALE,
     centerX |-> (ARENA_SIZE * SCALE) \div 2, centerY |-> (ARENA_SIZE * SCALE) \div 2]

integrate(e, dt) == integrateEntity(e, dt)
normSpeed(e, speed) == normalizeSpeed(e, speed)

\* e.vel += (ix, iy) * mul * dt, mul in percent
AddImpulse(e, ix, iy, dt, mul) ==
    [e EXCEPT !.vel = <<e.vel[1] + RDiv(ix * mul * dt, 100 * SECOND),
                        e.vel[2] + RDiv(iy * mul * dt, 100 * SECOND)>>]

\* wanderImpulse after its two draws d
simWanderWith(e, d, dt, mul) ==
    LET a == RangeOf(d.w1, 0, ANGLE_UNITS)
        mag == RDiv(RangeOf(d.w2, 0, 80 * SCALE) * mul, 100)
    IN  [e |-> AddImpulse(e, RDiv(Cos(a) * mag, 1024), RDiv(Sin(a) * mag, 1024), dt, 100),
         rng |-> d.rng]

\* wanderImpulse(e, rng, dt, mul): two draws
wanderImpulse(e, rng, dt, mul) == simWanderWith(e, TwoDraws(rng), dt, mul)

\* hunterImpulse(hunter, target, dt, mul)
hunterImpulse(hunter, target, dt, mul) ==
    LET dx == target.pos[1] - hunter.pos[1]
        dy == target.pos[2] - hunter.pos[2]
        d == Hypot(dx, dy)
    IN  IF d * 1000 < SCALE THEN hunter
        ELSE AddImpulse(hunter, RDiv(dx * 200 * SCALE, d), RDiv(dy * 200 * SCALE, d), dt, mul)

\* runnerImpulse, with r the draw rng.next() it makes unless it returns early.
simRunnerWith(runner, pursuer, rng, r, dt, mul) ==
    LET dx == runner.pos[1] - pursuer.pos[1]
        dy == runner.pos[2] - pursuer.pos[2]
        d == Hypot(dx, dy)
        perp == RangeOf(r.word, -EVADE_JITTER, EVADE_JITTER)
        ev == EvadeVector(dx, dy, d, perp, 200)
    IN  IF d * 1000 < SCALE THEN [e |-> runner, rng |-> rng]
        ELSE [e |-> AddImpulse(runner, ev[1], ev[2], dt, mul), rng |-> r.rng]

\* runnerImpulse(runner, pursuer, rng, dt, mul): one draw, none when d < 0.001
runnerImpulse(runner, pursuer, rng, dt, mul) ==
    simRunnerWith(runner, pursuer, rng, RngNext(rng), dt, mul)

\* centerAttract(e, cx, cy, dt, strength): strength in pixels/second
centerAttract(e, cx, cy, dt, strength) ==
    LET dx == cx - e.pos[1]
        dy == cy - e.pos[2]
        d == Hypot(dx, dy)
    IN  IF d * 1000 < SCALE THEN e
        ELSE AddImpulse(e, RDiv(dx * strength * SCALE, d), RDiv(dy * strength * SCALE, d),
                        dt, 100)

\* The locals of simulateRound before the loop.  `outcome` is the caller's
\* controller after sampleOutcome; `result` is "none" until the function returns.
simulateRoundEnter(rng0, outcome0, arena) ==
    LET oc == sampleOutcome(outcome0, rng0)
        r1 == RngNext(oc.rng)
        r2 == RngNext(r1.rng)
        cx == arena.centerX
        cy == arena.centerY
        sep == SIM_BALL_RADIUS * 3 * SCALE
        a1 == RangeOf(r1.word, 0, ANGLE_UNITS)
        a2 == a1 + ANGLE_UNITS \div 2 + RangeOf(r2.word, -AngleOf(500), AngleOf(500))
        ePlayer == [pos |-> <<cx - sep, cy>>, vel |-> <<0, 0>>,
                    radius |-> SIM_BALL_RADIUS * SCALE,
                    speedMul |-> speedMultiplier(oc.outcome)]
        eOpponent == [pos |-> <<cx + sep, cy>>, vel |-> <<0, 0>>,
                      radius |-> SIM_BALL_RADIUS * SCALE, speedMul |-> 100]
    IN  [rng |-> r2.rng,
         outcome |-> oc.outcome,
         ePlayer |-> setVelocityAngle(ePlayer, a1, SIM_BASE_SPEED * SCALE),
         eOpponent |-> setVelocityAngle(eOpponent, a2, SIM_BASE_SPEED * SCALE),
         knifePickedUp |-> FALSE, playerIsHunter |-> FALSE,
         chaseTimer |-> SIM_CHASE_DURATION,
         knifeSpawned |-> FALSE, prewaitDone |-> FALSE,
         prewaitTimer |-> SIM_PREWAIT_DURATION,
         preknifeDone2Timer |-> SIM_PREKNIFE_DURATION,
         tick |-> 0, result |-> "none"]

\* ePlayer or eOpponent and the generator, as a call that returned w = [e, rng]
\* leaves them.
simSteered(s, isPlayer, w) ==
    IF isPlayer THEN [s EXCEPT !.ePlayer = w.e, !.rng = w.rng]
    ELSE [s EXCEPT !.eOpponent = w.e, !.rng = w.rng]

\* wanderImpulse(ePlayer, rng, dt, mul)
simWanderPlayer(s, dt, mul) == simSteered(s, TRUE, wanderImpulse(s.ePlayer, s.rng, dt, mul))

\* wanderImpulse(eOpponent, rng, dt, mul)
simWanderOpponent(s, dt, mul) ==
    simSteered(s, FALSE, wanderImpulse(s.eOpponent, s.rng, dt, mul))

\* The prewait branch of the loop body.
simPrewait(s, dt) ==
    simWanderOpponent(simWanderPlayer(
        [s EXCEPT !.prewaitTimer = @ - dt, !.prewaitDone = (s.prewaitTimer - dt <= 0)],
        dt, 50), dt, 50)

\* The preknife branch.
simPreknife(s, dt) ==
    simWanderOpponent(simWanderPlayer(
        [s EXCEPT !.preknifeDone2Timer = @ - dt,
                  !.knifeSpawned = (s.preknifeDone2Timer - dt <= 0)],
        dt, 100), dt, 100)

\* centerAttract(ePlayer, cx, cy, dt, knifeAttr)
simAttract(s, dt, arena) ==
    [s EXCEPT !.ePlayer = centerAttract(s.ePlayer, arena.centerX, arena.centerY, dt,
                                        knifeAttractionStrength(s.outcome))]

\* The pickup check of the knife branch.
simPickup(s, arena) ==
    LET hunterIdx == PickupHunter(s.ePlayer, s.eOpponent, arena.centerX, arena.centerY,
                                  (SIM_BALL_RADIUS + SIM_KNIFE_RADIUS) * SCALE)
        chaseSpeed == SIM_BASE_SPEED * SIM_CHASE_SPEED_MUL * SCALE
        p1 == [s.ePlayer EXCEPT !.speedMul = speedMultiplier(s.outcome)]
    IN  IF hunterIdx = 0 THEN s
        ELSE [s EXCEPT !.knifePickedUp = TRUE,
                       !.playerIsHunter = (hunterIdx = 1),
                       !.ePlayer = normSpeed(p1, RDiv(chaseSpeed * p1.speedMul, 100)),
                       !.eOpponent = normSpeed(s.eOpponent, chaseSpeed)]

\* The knife pickup branch.
simKnife(s, dt, arena) ==
    simPickup(simWanderOpponent(simWanderPlayer(simAttract(s, dt, arena), dt, 80), dt, 80),
              arena)

\* hunter and runner of the chase branch
simHunter(s) == IF s.playerIsHunter THEN s.ePlayer ELSE s.eOpponent
simRunner(s) == IF s.playerIsHunter THEN s.eOpponent ELSE s.ePlayer

\* hunterImpulse(hunter, runner, dt, hunterMul)
simChaseHunter(s, dt) ==
    LET hunterMul == IF s.playerIsHunter
                     THEN steeringMultiplier(s.outcome, s.playerIsHunter) ELSE 100
        hi == hunterImpulse(simHunter(s), simRunner(s), dt, hunterMul)
    IN  IF s.playerIsHunter THEN [s EXCEPT !.ePlayer = hi] ELSE [s EXCEPT !.eOpponent = hi]

\* runnerImpulse(runner, hunter, rng, dt, runnerMul)
simChaseRunner(s, dt) ==
    simSteered(s, ~s.playerIsHunter,
               runnerImpulse(simRunner(s), simHunter(s), s.rng, dt,
                             IF ~s.playerIsHunter
                             THEN steeringMultiplier(s.outcome, s.playerIsHunter) ELSE 100))

\* The two normSpeed calls of the chase branch.
simChaseSpeeds(s) ==
    [s EXCEPT !.ePlayer = normSpeed(@, RDiv(SIM_BASE_SPEED * SIM_CHASE_SPEED_MUL * SCALE
                                            * @.speedMul, 100)),
              !.eOpponent = normSpeed(@, RDiv(SIM_BASE_SPEED * SIM_CHASE_SPEED_MUL * SCALE
                                              * @.speedMul, 100))]

\* The two returns of the chase branch.
simChaseExit(s) ==
    LET exit == ChaseExit(simHunter(s), simRunner(s), s.chaseTimer)
    IN  [s EXCEPT !.result = IF exit = "capture"
                             THEN (IF s.playerIsHunter THEN "win" ELSE "lose")
                             ELSE IF exit = "timeout"
                             THEN (IF ~s.playerIsHunter THEN "win" ELSE "lose")
                             ELSE "none"]

\* The chase branch; it may return.
simChase(s, dt) ==
    simChaseExit(simChaseSpeeds(simChaseRunner(simChaseHunter(
        [s EXCEPT !.chaseTimer = @ - dt], dt), dt)))

\* The integrate + bounce block that ends the loop body.
simMove(s, dt, arena) ==
    LET p == bounceWalls(integrate(normSpeed(s.ePlayer,
                   RDiv(SIM_BASE_SPEED * SCALE * s.ePlayer.speedMul, 100)), dt), arena)
        o == bounceWalls(integrate(normSpeed(s.eOpponent, SIM_BASE_SPEED * SCALE), dt), arena)
        be == bounceEntities(p, o)
    IN  [s EXCEPT !.ePlayer = be.a, !.eOpponent = be.b]

\* The if / else if chain of the loop body.
simBranch(s, dt, arena) ==
    IF ~s.prewaitDone THEN simPrewait(s, dt)
    ELSE IF ~s.knifeSpawned THEN simPreknife(s, dt)
    ELSE IF ~s.knifePickedUp THEN simKnife(s, dt, arena)
    ELSE simChase(s, dt)

\* The loop body after the chain: nothing more if the chase branch returned.
simRest(s, dt, arena) ==
    IF s.result # "none" THEN s
    ELSE [simMove(s, dt, arena) EXCEPT !.tick = @ + 1]

\* One iteration of the for loop of simulateRound (tick < MAX_TICKS).
simulateRoundStep(s, arena) ==
    simRest(simBranch(s, SIM_FIXED_DT, arena), SIM_FIXED_DT, arena)

\* The fallback after the loop: return !playerIsHunter.
simulateRoundFallback(s) ==
    [s EXCEPT !.result = IF ~s.playerIsHunter THEN "win" ELSE "lose"]

\* The phase a simulateRound state is in, in the Game's terms.
SimPhase(s) ==
    IF s.result # "none" THEN "ended"
    ELSE IF ~s.prewaitDone THEN "prewait"
    ELSE IF ~s.knifeSpawned THEN "preknife"
    ELSE IF ~s.knifePickedUp THEN "kniferace"
    ELSE "chase"

\* ------------------------------------------------------------ the machine
\* Rounds played in one behaviour of the page.
MaxRounds == 2
\* runSimulation calls in one behaviour of the command line.
MaxBatches == 2
\* Ticks followed in one round of the page.
TickBudget == 1000

\* What the player can enter.  Bets are in hundredths of a FUN; the second is
\* more than the balance ever holds.
SeedInputs == {<<17>>, <<28>>, <<>>}
RandomSeeds == {<<0, 7>>, <<0, 17>>, <<0, 28>>}
WinChanceInputs == {30, 70}
BetInputs == {1000, 200000}
DictatorInputs == {"arafat"}
UiStates ==
    [selectedDictatorId : DictatorInputs, betAmount : BetInputs,
     winChance : WinChanceInputs, seedInput : SeedInputs]

\* Frame durations at speed 1x, in time units (half a step and one step).
FrameDeltas == {1, 2}

\* The arguments of runSimulation.
SimRounds == {2}
SimBaseSeeds == {16, 27}

Phases == {"prewait", "preknife", "kniferace", "chase", "ended"}
NoMarks == [p \in Phases |-> 0]

\* The marks after a step that took the phase from p0 to p1 as step number n.
Mark(marks, p0, p1, n) == IF p1 # p0 THEN [marks EXCEPT ![p1] = n] ELSE marks

VARIABLES
    game,   \* the Game object with the objects it owns
    pc,     \* "idle" between events, "loop" inside the while loop of _update
    hist,   \* history of the page: rounds started, ticks of the current round,
            \* the tick each phase was entered at, how the chase was left
    sim,    \* the locals of the executing simulateRound call, <<>> when none
    batch,  \* the locals of runSimulation
    shist,  \* history of the command line: calls made, loop bodies executed in
            \* the current round, the step each phase was entered at
    phys,   \* the bodies and arena a physics function is called on by itself
    unit    \* the objects a class is exercised on by itself
            \* (<<>> in the page and the command line)

vars == <<game, pc, hist, sim, batch, shist, phys, unit>>

Running(phase) == phase \in {"prewait", "preknife", "kniferace", "chase"}

NoBatch ==
    [status |-> "idle", rounds |-> 0, winChance |-> 0, betAmount |-> 0, baseSeed |-> 0,
     outcome |-> NewOutcomeController(0), i |-> 0, wins |-> 0, totalPayout |-> 0,
     result |-> <<>>]

\* The page and the command line before anything has happened.
Start ==
    /\ game = NewGame
    /\ pc = "idle"
    /\ hist = [round |-> 0, tickNo |-> 0, marks |-> NoMarks, exit |-> "none"]
    /\ sim = <<>>
    /\ batch = NoBatch
    /\ shist = [batches |-> 0, steps |-> 0, marks |-> NoMarks, exit |-> "none"]

Init == Start /\ phys = <<>> /\ unit = <<>>

\* The page and the command line are separate processes: a behaviour is one or
\* the other.
PageProcess == shist.batches = 0
CliProcess == game = NewGame /\ pc = "idle" /\ hist.round = 0

RoundKey(g) == <<g.rng.seed, g.outcome.winChance>>

\* The play callback (a click on Play, on the popup button, or the Space key).
Play(state, randomSeed) ==
    /\ PageProcess
    /\ pc = "idle"
    /\ Running(game.phase) \/ hist.round < MaxRounds
    /\ game' = onPlay(game, state, randomSeed)
    /\ hist' = IF ~Running(game.phase) /\ Running(game'.phase)
               THEN [hist EXCEPT !.round = @ + 1, !.tickNo = 0, !.marks = NoMarks,
                                 !.exit = "none"]
               ELSE hist
    /\ UNCHANGED <<pc, sim, batch, shist, phys, unit>>

\* The speed-up button: onSpeedup(fast) sets speedScale to 2 or 1.
SpeedToggle ==
    /\ PageProcess
    /\ pc = "idle"
    /\ game' = [game EXCEPT !.speedScale = IF @ = 1 THEN 2 ELSE 1]
    /\ UNCHANGED <<pc, hist, sim, batch, shist, phys, unit>>

\* A ticker callback whose _update does not return in the phases idle and ended.
FrameInAnyPhase(delta) ==
    /\ PageProcess
    /\ pc = "idle"
    /\ game' = [game EXCEPT !.accumulator = @ + delta * game.speedScale]
    /\ pc' = IF game'.accumulator >= FIXED_DT THEN "loop" ELSE "idle"
    /\ UNCHANGED <<hist, sim, batch, shist, phys, unit>>

\* The ticker callback: _update(delta / 60 * speedScale) up to the while loop.
Frame(delta) ==
    /\ PageProcess
    /\ pc = "idle"
    /\ IF ~Running(game.phase)
       THEN UNCHANGED <<game, pc>>
       ELSE /\ game' = [game EXCEPT !.accumulator = @ + delta * game.speedScale]
            /\ pc' = IF game'.accumulator >= FIXED_DT THEN "loop" ELSE "idle"
    /\ UNCHANGED <<hist, sim, batch, shist, phys, unit>>

\* What holds in the step that ends a round: the two bodies are within the sum of
\* their radii during a chase ("capture"), else the chase timer runs out in this
\* step ("timeout"), else "neither".
ExitSeen(inChase, a, b, timer) ==
    IF inChase /\ WithinDist(a.pos[1] - b.pos[1], a.pos[2] - b.pos[2], a.radius + b.radius)
    THEN "capture"
    ELSE IF inChase /\ timer - FIXED_DT <= 0 THEN "timeout"
    ELSE "neither"

\* A while loop of _update that goes on after the tick that ended the round.
TickIgnoresEnd ==
    /\ pc = "loop"
    /\ hist.tickNo < TickBudget
    /\ \E g1 \in {tick(game, FIXED_DT)}, t \in {hist.tickNo + 1} :
           /\ game' = [g1 EXCEPT !.accumulator = @ - FIXED_DT]
           /\ pc' = IF game'.accumulator < FIXED_DT THEN "idle" ELSE "loop"
           /\ hist' = [hist EXCEPT !.tickNo = t,
                                   !.marks = Mark(@, game.phase, g1.phase, t)]
    /\ UNCHANGED <<sim, batch, shist, phys, unit>>

\* One iteration of the while loop of _update: _tick(FIXED_DT), the accumulator
\* is reduced, and the loop is left on `ended` or when less than a step remains.
Tick ==
    /\ pc = "loop"
    /\ hist.tickNo < TickBudget
    /\ \E g1 \in {tick(game, FIXED_DT)}, t \in {hist.tickNo + 1} :
           /\ game' = [g1 EXCEPT !.accumulator = @ - FIXED_DT]
           /\ pc' = IF g1.phase = "ended" \/ game'.accumulator < FIXED_DT
                    THEN "idle" ELSE "loop"
           /\ hist' = [hist EXCEPT
                  !.tickNo = t,
                  !.marks = Mark(@, game.phase, g1.phase, t),
                  !.exit = IF g1.phase = "ended"
                           THEN ExitSeen(game.phase = "chase", game.dictators[1],
                                         game.dictators[2], game.phaseTimer)
                           ELSE @]
    /\ UNCHANGED <<sim, batch, shist, phys, unit>>

\* runSimulation(rounds, winChance, betAmount, baseSeed) up to its loop.
RunSimulation(rounds, winChance, betAmount, baseSeed) ==
    /\ CliProcess
    /\ batch.status # "running"
    /\ shist.batches < MaxBatches
    /\ batch' = [status |-> "running", rounds |-> rounds, winChance |-> winChance,
                 betAmount |-> betAmount, baseSeed |-> baseSeed,
                 outcome |-> NewOutcomeController(winChance),
                 i |-> 0, wins |-> 0, totalPayout |-> 0, result |-> <<>>]
    /\ shist' = [shist EXCEPT !.batches = @ + 1]
    /\ UNCHANGED <<game, pc, hist, sim, phys, unit>>

\* A loop that gives every round the generator of the first.
RoundRngOfFirst(baseSeed, i) == NewRng(<<0, baseSeed>>)

\* new Rng(baseSeed + i)
RoundRng(baseSeed, i) == NewRng(<<0, baseSeed + i>>)

\* The loop of runSimulation calls simulateRound(new Rng(baseSeed + i), outcome, arena):
\* the statements of simulateRound before its loop.
SimEnter ==
    /\ batch.status = "running"
    /\ sim = <<>>
    /\ batch.i < batch.rounds
    /\ \E s \in {simulateRoundEnter(RoundRng(batch.baseSeed, batch.i),
                                    batch.outcome, SimArena)} :
           /\ sim' = <<s>>
           /\ batch' = [batch EXCEPT !.outcome = s.outcome]
    /\ shist' = [shist EXCEPT !.steps = 0, !.marks = NoMarks, !.exit = "none"]
    /\ UNCHANGED <<game, pc, hist, phys, unit>>

SimKey(s) == <<s.rng.seed, s.outcome.winChance>>

\* What a step of simulateRound adds to the history.
SimRecord(s0, s1) ==
    [shist EXCEPT !.steps = @ + 1,
                  !.marks = Mark(@, SimPhase(s0), SimPhase(s1), shist.steps + 1),
                  !.exit = IF s1.result # "none"
                           THEN ExitSeen(SimPhase(s0) = "chase" /\ s0.tick < MAX_TICKS,
                                         s0.ePlayer, s0.eOpponent, s0.chaseTimer)
                           ELSE @]

\* One iteration of the loop of simulateRound.
SimStep ==
    /\ sim # <<>>
    /\ sim[1].result = "none"
    /\ sim[1].tick < MAX_TICKS
    /\ \E s1 \in {simulateRoundStep(sim[1], SimArena)} :
           /\ sim' = <<s1>>
           /\ shist' = SimRecord(sim[1], s1)
    /\ UNCHANGED <<game, pc, hist, batch, phys, unit>>

\* The loop of simulateRound ran out: the return after it.
SimFallback ==
    /\ sim # <<>>
    /\ sim[1].result = "none"
    /\ sim[1].tick >= MAX_TICKS
    /\ \E s1 \in {simulateRoundFallback(sim[1])} :
           /\ sim' = <<s1>>
           /\ shist' = SimRecord(sim[1], s1)
    /\ UNCHANGED <<game, pc, hist, batch, phys, unit>>

\* A loop body that counts every round as won.
SimReturnCountsAll ==
    /\ sim # <<>>
    /\ sim[1].result # "none"
    /\ batch' = [batch EXCEPT !.i = @ + 1, !.wins = @ + 1,
                              !.totalPayout = @ + (batch.betAmount * PAYOUT_MUL) \div 10]
    /\ sim' = <<>>
    /\ UNCHANGED <<game, pc, hist, shist, phys, unit>>

\* simulateRound has returned: the rest of the loop body of runSimulation.
SimReturn ==
    /\ sim # <<>>
    /\ sim[1].result # "none"
    /\ batch' = [batch EXCEPT
           !.i = @ + 1,
           !.wins = IF sim[1].result = "win" THEN @ + 1 ELSE @,
           !.totalPayout = IF sim[1].result = "win"
                           THEN @ + (batch.betAmount * PAYOUT_MUL) \div 10 ELSE @]
    /\ sim' = <<>>
    /\ UNCHANGED <<game, pc, hist, shist, phys, unit>>

\* The loop of runSimulation is over: the result record.  Rates are in
\* thousandths.
SimFinish ==
    /\ batch.status = "running"
    /\ sim = <<>>
    /\ batch.i >= batch.rounds
    /\ batch' = [batch EXCEPT
           !.status = "done",
           !.result = <<[rounds |-> batch.rounds, wins |-> batch.wins,
                         losses |-> batch.rounds - batch.wins,
                         observedWinRate |-> RDiv(batch.wins * 1000, batch.rounds),
                         totalBet |-> batch.rounds * batch.betAmount,
                         totalPayout |-> batch.totalPayout,
                         rtp |-> RDiv(batch.totalPayout * 1000,
                                      batch.rounds * batch.betAmount),
                         configuredWinChance |-> batch.winChance,
                         expectedRtp |-> PAYOUT_MUL * batch.winChance]>>]
    /\ UNCHANGED <<game, pc, hist, sim, shist, phys, unit>>

Next ==
    \/ \E state \in UiStates, randomSeed \in RandomSeeds : Play(state, randomSeed)
    \/ SpeedToggle
    \/ \E delta \in FrameDeltas : Frame(delta)
    \/ Tick
    \/ \E rounds \in SimRounds, winChance \in WinChanceInputs, betAmount \in BetInputs,
          baseSeed \in SimBaseSeeds : RunSimulation(rounds, winChance, betAmount, baseSeed)
    \/ SimEnter
    \/ SimStep
    \/ SimFallback
    \/ SimReturn
    \/ SimFinish

Spec == Init /\ [][Next]_vars

\* ENABLED <<\E delta \in FrameDeltas : Frame(delta)>>_vars and ENABLED <<Tick>>_vars,
\* written out: a frame changes the state in a running round, a tick always adds
\* to hist.tickNo.
FrameEnabled == PageProcess /\ pc = "idle" /\ Running(game.phase)
TickEnabled == pc = "loop" /\ hist.tickNo < TickBudget

\* The ticker keeps calling _update and the loop of _update keeps running:
\* WF_vars(\E delta \in FrameDeltas : Frame(delta)) /\ WF_vars(Tick), with the
\* ENABLED predicates above.
Fairness ==
    /\ []<>(~FrameEnabled) \/ []<><<\E delta \in FrameDeltas : Frame(delta)>>_vars
    /\ []<>(~TickEnabled) \/ []<><<Tick>>_vars

FairSpec == Spec /\ Fairness


\* ------------------------------------- the physics functions called by themselves
\* The arenas: the Game's, runSimulation's, and one exactly as wide as a ball.
PhysArenas == {NewGame.arena, SimArena, NewArena(0, 0, 2 * BALL_RADIUS * SCALE)}

\* Coordinates along one axis of an arena: far outside, just outside the band a
\* centre may be in, on its edges, and in the middle.
PhysCoords(lo, hi, r) ==
    {lo - 20000, lo + r - 1, lo + r, (lo + hi) \div 2, hi - r, hi - r + 1, hi + 20000}

PhysVels == {<<3840, -1000>>, <<-2000, 3000>>}

\* Where the second body is, from the first: at the same point, overlapping
\* along an axis and askew, just inside the sum of the radii, touching, apart.
PhysDeltas ==
    {<<0, 0>>, <<960, 0>>, <<0, -1280>>, <<768, 1024>>, <<-1000, 700>>,
     <<-1267, -1266>>, <<2 * BALL_RADIUS * SCALE, 0>>, <<2000, 100>>}

PhysBody(pos, vel) == [pos |-> pos, vel |-> vel, radius |-> BALL_RADIUS * SCALE]

\* The arguments of a call, and where its results go.
PhysInputs ==
    {[a0 |-> PhysBody(<<x, y>>, va),
      b0 |-> PhysBody(<<x + d[1], y + d[2]>>, vb),
      arena |-> ar, called |-> "none", a |-> <<>>, b |-> <<>>, hit |-> FALSE] :
        ar \in PhysArenas, va \in PhysVels, vb \in PhysVels, d \in PhysDeltas,
        x \in UNION {PhysCoords(q.left, q.right, BALL_RADIUS * SCALE) : q \in PhysArenas},
        y \in UNION {PhysCoords(q.top, q.bottom, BALL_RADIUS * SCALE) : q \in PhysArenas}}

PhysInit == Start /\ phys \in {<<c>> : c \in PhysInputs} /\ unit = <<>>

\* bounceWalls(a, arena); bounceWalls(b, arena)
PhysBounceWalls ==
    /\ phys # <<>>
    /\ phys[1].called = "none"
    /\ phys' = <<[phys[1] EXCEPT !.called = "bounceWalls",
                                 !.a = bounceWalls(phys[1].a0, phys[1].arena),
                                 !.b = bounceWalls(phys[1].b0, phys[1].arena)]>>
    /\ UNCHANGED <<game, pc, hist, sim, batch, shist, unit>>

\* bounceEntities(a, b)
PhysBounceEntities ==
    /\ phys # <<>>
    /\ phys[1].called = "none"
    /\ \E be \in {bounceEntities(phys[1].a0, phys[1].b0)} :
           phys' = <<[phys[1] EXCEPT !.called = "bounceEntities",
                                    !.a = be.a, !.b = be.b, !.hit = be.hit]>>
    /\ UNCHANGED <<game, pc, hist, sim, batch, shist, unit>>

PhysNext == PhysBounceWalls \/ PhysBounceEntities

PhysSpec == PhysInit /\ [][PhysNext]_vars

\* --------------------------------------------------- the Rng class by itself
\* Three generators constructed with the same seed: a and its twin b are called
\* in step, then a is reset; after the reset a is called in step with c, which
\* was not called before.  The words returned are recorded as they are returned.
MaxPre == 4
MaxPost == 4
RngSeeds == {<<0, 0>>, <<0, 1>>, <<0, 42>>, <<0, 65535>>, <<1, 0>>, <<32768, 0>>,
             <<37530, 34315>>, <<65535, 65535>>}

RngInit ==
    /\ Start
    /\ phys = <<>>
    /\ unit \in {<<[a |-> NewRng(seed), b |-> NewRng(seed), c |-> NewRng(seed),
                    wasReset |-> FALSE, pre |-> 0,
                    wordsA |-> <<>>, wordsB |-> <<>>, wordsC |-> <<>>]>> :
                     seed \in RngSeeds}

\* a.next() and b.next(), before the reset
RngNextBefore ==
    /\ unit # <<>>
    /\ ~unit[1].wasReset
    /\ unit[1].pre < MaxPre
    /\ unit' = <<[unit[1] EXCEPT !.a = RngNext(unit[1].a).rng,
                                 !.b = RngNext(unit[1].b).rng,
                                 !.pre = @ + 1,
                                 !.wordsA = Append(@, RngNext(unit[1].a).word),
                                 !.wordsB = Append(@, RngNext(unit[1].b).word)]>>
    /\ UNCHANGED <<game, pc, hist, sim, batch, shist, phys>>

\* a.reset()
RngResetCall ==
    /\ unit # <<>>
    /\ ~unit[1].wasReset
    /\ unit' = <<[unit[1] EXCEPT !.a = RngReset(unit[1].a), !.wasReset = TRUE,
                                 !.wordsA = <<>>]>>
    /\ UNCHANGED <<game, pc, hist, sim, batch, shist, phys>>

\* a.next() and c.next(), after the reset
RngNextAfter ==
    /\ unit # <<>>
    /\ unit[1].wasReset
    /\ Len(unit[1].wordsC) < MaxPost
    /\ unit' = <<[unit[1] EXCEPT !.a = RngNext(unit[1].a).rng,
                                 !.c = RngNext(unit[1].c).rng,
                                 !.wordsA = Append(@, RngNext(unit[1].a).word),
                                 !.wordsC = Append(@, RngNext(unit[1].c).word)]>>
    /\ UNCHANGED <<game, pc, hist, sim, batch, shist, phys>>

RngNextStep == RngNextBefore \/ RngResetCall \/ RngNextAfter

RngSpec == RngInit /\ [][RngNextStep]_vars

\* ------------------------------------------ the OutcomeController by itself
\* A controller is constructed with a win chance (in percent) as runSimulation
\* and the Game construct theirs, then setWinChance and sampleOutcome are called
\* on it in any order.
MaxSamples == 3
OcArgs == {-50, 0, 30, 50, 100, 150}
OcSeeds == {<<0, 16>>, <<0, 27>>, <<0, 42>>}

OcInit == Start /\ phys = <<>> /\ unit = <<>>

\* new OutcomeController(winChance)
OcConstruct ==
    /\ unit = <<>>
    /\ \E winChance \in OcArgs, seed \in OcSeeds :
           unit' = <<[oc |-> NewOutcomeController(winChance), rng |-> NewRng(seed),
                      called |-> "constructor"]>>
    /\ UNCHANGED <<game, pc, hist, sim, batch, shist, phys>>

\* outcome.setWinChance(p)
OcSetWinChance ==
    /\ unit # <<>>
    /\ \E p \in OcArgs :
           unit' = <<[unit[1] EXCEPT !.oc = setWinChance(unit[1].oc, p),
                                     !.called = "setWinChance"]>>
    /\ UNCHANGED <<game, pc, hist, sim, batch, shist, phys>>

\* outcome.sampleOutcome(rng)
OcSampleOutcome ==
    /\ unit # <<>>
    /\ unit[1].rng.draws < MaxSamples
    /\ \E s \in {sampleOutcome(unit[1].oc, unit[1].rng)} :
           unit' = <<[unit[1] EXCEPT !.oc = s.outcome, !.rng = s.rng,
                                     !.called = "sampleOutcome"]>>
    /\ UNCHANGED <<game, pc, hist, sim, batch, shist, phys>>

OcNext == OcConstruct \/ OcSetWinChance \/ OcSampleOutcome

OcSpec == OcInit /\ [][OcNext]_vars

\* ------------------------------------------------ the knife pickup by itself
\* One knife-race tick of the Game and one knife iteration of simulateRound,
\* each on a round whose two bodies stand at given offsets (in pixels) from the
\* knife: the player's left of or above it, the opponent's right of or below it.
PickOffsetsA == {<<-100, 0>>, <<-60, 0>>, <<-49, 0>>, <<-48, 0>>, <<-40, 0>>, <<0, -48>>,
                 <<-30, -30>>}
PickOffsetsB == {<<100, 0>>, <<60, 0>>, <<49, 0>>, <<48, 0>>, <<40, 0>>, <<0, 48>>,
                 <<30, 30>>}

\* p moved by the offset d
OffsetBy(p, d) == <<p[1] + d[1] * SCALE, p[2] + d[2] * SCALE>>

\* A Game at the start of a knife-race tick, the dictators at the offsets.
PickGame(da, db) ==
    LET state == CHOOSE u \in UiStates : u.betAmount <= STARTING_BALANCE * 100
        g == spawnKnife([onPlayAccepted(NewGame, state, <<0, 16>>) EXCEPT !.phaseTimer = 0])
    IN  [g EXCEPT !.dictators[1].pos = OffsetBy(g.knife[1].pos, da),
                  !.dictators[2].pos = OffsetBy(g.knife[1].pos, db)]

\* simulateRound at the start of a knife iteration, the bodies at the offsets.
PickSim(da, db) ==
    LET s == simulateRoundEnter(NewRng(<<0, 16>>), NewOutcomeController(30), SimArena)
        k == <<SimArena.centerX, SimArena.centerY>>
    IN  [s EXCEPT !.prewaitDone = TRUE, !.prewaitTimer = 0,
                  !.knifeSpawned = TRUE, !.preknifeDone2Timer = 0,
                  !.ePlayer.pos = OffsetBy(k, da), !.eOpponent.pos = OffsetBy(k, db)]

PickInit ==
    /\ Start
    /\ phys = <<>>
    /\ unit \in {<<[da |-> da, db |-> db, called |-> "none", picked |-> FALSE,
                    hunter |-> 0]>> : da \in PickOffsetsA, db \in PickOffsetsB}

\* _tickKnifeRace(FIXED_DT, dA, dB)
PickTickKnifeRace ==
    /\ unit # <<>>
    /\ unit[1].called = "none"
    /\ \E g1 \in {tickKnifeRace(PickGame(unit[1].da, unit[1].db), FIXED_DT)} :
           unit' = <<[unit[1] EXCEPT !.called = "Game",
                                     !.picked = (g1.phase = "chase"),
                                     !.hunter = FindRole(g1.dictators, "hunter")]>>
    /\ UNCHANGED <<game, pc, hist, sim, batch, shist, phys>>

\* The knife branch of the loop body of simulateRound
PickSimKnife ==
    /\ unit # <<>>
    /\ unit[1].called = "none"
    /\ \E s1 \in {simKnife(PickSim(unit[1].da, unit[1].db), SIM_FIXED_DT, SimArena)} :
           unit' = <<[unit[1] EXCEPT !.called = "simulateRound",
                                     !.picked = s1.knifePickedUp,
                                     !.hunter = IF ~s1.knifePickedUp THEN 0
                                                ELSE IF s1.playerIsHunter THEN 1 ELSE 2]>>
    /\ UNCHANGED <<game, pc, hist, sim, batch, shist, phys>>

PickNext == PickTickKnifeRace \/ PickSimKnife

PickSpec == PickInit /\ [][PickNext]_vars

\* ------------------------------------------------- the result popup of the Ui
\* The Ui by itself, with the browser's timer queue.  unit holds the Ui's
\* fields (ui), the pending timeouts (timers, oldest first, each with its id and
\* the time left), the value of _popupAutoCloseTimer while it is not null
\* (handle), the next timer id, the number of rounds the Game has started and
\* the last event.  The Game behind onPlay accepts or rejects the bet, and ends
\* the round it has started at some later time.
AUTO_CLOSE_MS == 2000

ElapseSteps == {250, 1000}

PopInit ==
    /\ Start
    /\ phys = <<>>
    /\ unit = <<[ui |-> NewUi, timers |-> <<>>, handle |-> 0, nextId |-> 1,
                 rounds |-> 0, called |-> "none"]>>

\* clearTimeout(id); an id that is no longer pending is ignored
clearTimeout(timers, id) == SelectSeq(timers, LAMBDA t : t.id # id)

\* A _openPopup that sets the new timeout without clearing the pending one.
setAutoCloseKeepsOld(u) ==
    [u EXCEPT !.timers = @ \o <<[id |-> u.nextId, left |-> AUTO_CLOSE_MS]>>,
              !.handle = u.nextId,
              !.nextId = @ + 1]

\* _openPopup: if (_popupAutoCloseTimer) clearTimeout(...); setTimeout(...)
setAutoClose(u) ==
    [u EXCEPT !.timers = (IF u.ui.autoCloseTimer THEN clearTimeout(@, u.handle) ELSE @)
                             \o <<[id |-> u.nextId, left |-> AUTO_CLOSE_MS]>>,
              !.handle = u.nextId,
              !.nextId = @ + 1]

\* showWinPopup / showLosePopup
showPopup(u, kind) == [setAutoClose(u) EXCEPT !.ui = openPopup(u.ui, kind)]

\* _closePopup with the timer queue
hidePopup(u) ==
    [u EXCEPT !.ui = closePopup(@),
              !.timers = IF u.ui.autoCloseTimer THEN clearTimeout(@, u.handle) ELSE @,
              !.handle = 0]

\* _triggerPlay; an accepted onPlay sets the status running and starts a round
triggerPlay(u, accepted) ==
    IF u.ui.status = "running" \/ ~accepted
    THEN u
    ELSE [u EXCEPT !.ui = setStatus(@, "running"), !.rounds = @ + 1]

PopStep(u, event) ==
    /\ unit' = <<[u EXCEPT !.called = event]>>
    /\ UNCHANGED <<game, pc, hist, sim, batch, shist, phys>>

PopCanPlay == unit[1].ui.status = "running" \/ unit[1].rounds < MaxRounds

\* _endRound: setStatus, then showWinPopup or showLosePopup
PopEndRound(win) ==
    /\ unit[1].ui.status = "running"
    /\ PopStep(showPopup([unit[1] EXCEPT !.ui = setStatus(@, IF win THEN "win" ELSE "lose")],
                         IF win THEN "win" ELSE "lose"), "endRound")

\* time passes while no pending timeout is due
PopElapse(d) ==
    /\ unit[1].timers # <<>>
    /\ \A i \in 1..Len(unit[1].timers) : unit[1].timers[i].left > 0
    /\ PopStep([unit[1] EXCEPT !.timers =
                   [i \in 1..Len(@) |-> [@[i] EXCEPT !.left = IF @ > d THEN @ - d ELSE 0]]],
               "elapse")

\* the oldest timeout is due: its callback calls _closePopup
PopExpire ==
    /\ unit[1].timers # <<>>
    /\ Head(unit[1].timers).left = 0
    /\ PopStep(hidePopup([unit[1] EXCEPT !.timers = Tail(@)]), "expire")

\* click on the popup's button
PopPopupButton(accepted) ==
    /\ unit[1].ui.popupVisible
    /\ PopCanPlay
    /\ PopStep(triggerPlay(hidePopup(unit[1]), accepted), "popupButton")

\* keydown of Space
PopSpace(accepted) ==
    /\ PopCanPlay
    /\ PopStep(IF unit[1].ui.popupVisible
               THEN triggerPlay(hidePopup(unit[1]), accepted)
               ELSE IF unit[1].ui.status # "running"
                    THEN triggerPlay(unit[1], accepted)
                    ELSE unit[1],
               "space")

\* click on the Play button
PopPlayButton(accepted) ==
    /\ PopCanPlay
    /\ PopStep(triggerPlay(unit[1], accepted), "playButton")

PopNext ==
    \/ \E win \in BOOLEAN : PopEndRound(win)
    \/ \E d \in ElapseSteps : PopElapse(d)
    \/ PopExpire
    \/ \E accepted \in BOOLEAN : PopPopupButton(accepted)
    \/ \E accepted \in BOOLEAN : PopSpace(accepted)
    \/ \E accepted \in BOOLEAN : PopPlayButton(accepted)

PopSpec == PopInit /\ [][PopNext]_vars

\* ----------------------------------------------------- the page with resize()
\* Game.resize() is public and takes the size of the screen from the application
\* it was constructed with.  Here the embedding page calls it once, between two
\* callbacks, at one of a few ticks of the first round, the screen having one of
\* two sizes by then; unit records the call.
ScreenSizes == {400, CANVAS_SIZE}
ResizeTicks == {100, 200}

\* resize()
Resize(w, h) ==
    /\ PageProcess
    /\ pc = "idle"
    /\ unit = <<>>
    /\ hist.round = 1
    /\ hist.tickNo \in ResizeTicks
    /\ game' = [game EXCEPT !.arena = buildArena(w, h)]
    /\ unit' = <<[called |-> "resize", phase |-> game.phase, before |-> game.arena]>>
    /\ UNCHANGED <<pc, hist, sim, batch, shist, phys>>

ResizeNext ==
    \/ \E state \in UiStates, randomSeed \in RandomSeeds : Play(state, randomSeed)
    \/ SpeedToggle
    \/ \E delta \in FrameDeltas : Frame(delta)
    \/ Tick
    \/ \E size \in ScreenSizes : Resize(size, size)

ResizeSpec == Init /\ [][ResizeNext]_vars

\* ------------------------------------------- two rounds of a batch, interleaved
\* runSimulation hands the same OutcomeController (and the same arena) to every
\* call of simulateRound.  Here the two calls of a batch of two rounds are both
\* in progress: sim[j] is <<>> before call j is made and <<its locals>> after,
\* batch.outcome is the controller both read and sample into, and the statements
\* of the two calls alternate once both have been made, in either order of
\* entry.
ParRounds == 2
ParBaseSeeds == {6, 16}

ParInit ==
    /\ game = NewGame
    /\ pc = "idle"
    /\ hist = [round |-> 0, tickNo |-> 0, marks |-> NoMarks, exit |-> "none"]
    /\ shist = [batches |-> 1, steps |-> 0, marks |-> NoMarks, exit |-> "none"]
    /\ phys = <<>>
    /\ unit = <<>>
    /\ sim = [j \in 1..ParRounds |-> <<>>]
    /\ batch \in {[status |-> "running", rounds |-> ParRounds, winChance |-> winChance,
                   betAmount |-> betAmount, baseSeed |-> baseSeed,
                   outcome |-> NewOutcomeController(winChance),
                   i |-> 0, wins |-> 0, totalPayout |-> 0, result |-> <<>>] :
                      winChance \in WinChanceInputs, betAmount \in BetInputs,
                      baseSeed \in ParBaseSeeds}

\* The loop bodies call j has executed (all of them once it has returned).
ParProgress(j) ==
    IF sim[j] = <<>> THEN 0
    ELSE IF sim[j][1].result # "none" THEN MAX_TICKS + 1
    ELSE sim[j][1].tick

\* Call j is made: simulateRound(new Rng(baseSeed + j - 1), outcome, arena) up to
\* its loop.
ParEnter(j) ==
    /\ sim[j] = <<>>
    /\ \E s \in {simulateRoundEnter(RoundRng(batch.baseSeed, j - 1), batch.outcome,
                                    SimArena)} :
           /\ sim' = [sim EXCEPT ![j] = <<s>>]
           /\ batch' = [batch EXCEPT !.outcome = s.outcome]
    /\ UNCHANGED <<game, pc, hist, shist, phys, unit>>

\* The locals of call j, with the controller as it is now.
ParLocals(j) == [sim[j][1] EXCEPT !.outcome = batch.outcome]

\* Call j executes one iteration of its loop, or the return after the loop.
ParStep(j) ==
    /\ \A k \in 1..ParRounds : sim[k] # <<>> /\ ParProgress(j) <= ParProgress(k)
    /\ sim[j][1].result = "none"
    /\ \E s1 \in {IF sim[j][1].tick < MAX_TICKS
                  THEN simulateRoundStep(ParLocals(j), SimArena)
                  ELSE simulateRoundFallback(ParLocals(j))} :
           sim' = [sim EXCEPT ![j] = <<s1>>]
    /\ UNCHANGED <<game, pc, hist, batch, shist, phys, unit>>

ParNext == \E j \in 1..ParRounds : ParEnter(j) \/ ParStep(j)

ParSpec == ParInit /\ [][ParNext]_vars

\* ------------------------------------------------- one batch of the command line
\* runSimulation(CalRounds, winChance) with the default bet and base seed, as the
\* command line entry point calls it for each of its win chances.
CalRounds == 40
DEFAULT_BASE_SEED == 42
DEFAULT_BET == 10
CalWinChances == {10, 50, 90}

CalInit ==
    /\ game = NewGame
    /\ pc = "idle"
    /\ hist = [round |-> 0, tickNo |-> 0, marks |-> NoMarks, exit |-> "none"]
    /\ shist = [batches |-> 1, steps |-> 0, marks |-> NoMarks, exit |-> "none"]
    /\ phys = <<>>
    /\ unit = <<>>
    /\ sim = <<>>
    /\ batch \in {[status |-> "running", rounds |-> CalRounds, winChance |-> winChance,
                   betAmount |-> DEFAULT_BET * 100, baseSeed |-> DEFAULT_BASE_SEED,
                   outcome |-> NewOutcomeController(winChance),
                   i |-> 0, wins |-> 0, totalPayout |-> 0, result |-> <<>>] :
                      winChance \in CalWinChances}

CalNext == SimEnter \/ SimStep \/ SimFallback \/ SimReturn \/ SimFinish

CalSpec == CalInit /\ [][CalNext]_vars

\* ------------------------------------------------- independent reference runs
\* A round run on its own, in a new Game (or a new simulateRound call with a new
\* controller), is computed tick by tick; RefChunk * RefChunks ticks at most.
RefChunk == 50
RefChunks == 40

RECURSIVE Iterate(_, _, _)
\* Step(r) applied to r up to n times, while r is running.
Iterate(Step(_), r, n) ==
    IF n = 0 \/ r.done THEN r ELSE Iterate(Step, Step(r), n - 1)

\* The run r after the tick that leaves the Game as g1.
FreshGameStepTo(r, g1) ==
    [g |-> g1, n |-> r.n + 1, marks |-> Mark(r.marks, r.g.phase, g1.phase, r.n + 1),
     done |-> ~Running(g1.phase)]

FreshGameStep(r) == FreshGameStepTo(r, tick(r.g, FIXED_DT))

FreshGameChunk(r) == Iterate(FreshGameStep, r, RefChunk)

\* The round of a new Game the seed and win chance are entered into: the tick
\* each phase is entered at and the result shown ("running" if it has not ended).
FreshGameRound(seed, winChance) ==
    LET g0 == onPlay(NewGame,
                     [selectedDictatorId |-> "arafat", betAmount |-> 1000,
                      winChance |-> winChance, seedInput |-> <<seed[2]>>], seed)
        r == Iterate(FreshGameChunk,
                     [g |-> g0, n |-> 0, marks |-> NoMarks, done |-> ~Running(g0.phase)],
                     RefChunks)
    IN  [marks |-> r.marks, result |-> r.g.ui.status]

\* The run r after the loop iteration (or fallback) that leaves the locals as s1.
FreshSimStepTo(r, s1) ==
    [s |-> s1, n |-> r.n + 1,
     marks |-> Mark(r.marks, SimPhase(r.s), SimPhase(s1), r.n + 1),
     done |-> s1.result # "none"]

FreshSimStep(r) ==
    FreshSimStepTo(r, IF r.s.tick < MAX_TICKS THEN simulateRoundStep(r.s, SimArena)
                      ELSE simulateRoundFallback(r.s))

FreshSimChunk(r) == Iterate(FreshSimStep, r, RefChunk)

\* simulateRound called with a new Rng and a new controller.
FreshSimRound(seed, winChance) ==
    LET s0 == simulateRoundEnter(NewRng(seed), NewOutcomeController(winChance), SimArena)
        r == Iterate(FreshSimChunk, [s |-> s0, n |-> 0, marks |-> NoMarks, done |-> FALSE],
                     RefChunks)
    IN  [marks |-> r.marks, result |-> r.s.result]

GameKeys == {<<seed, w>> : seed \in RandomSeeds, w \in WinChanceInputs}
SimKeys ==
    {<<<<0, b + i>>, w>> : b \in SimBaseSeeds, i \in UNION {0..(n - 1) : n \in SimRounds},
                          w \in WinChanceInputs}

\* The rounds looked at for what a target outcome leaves open: those the page
\* plays, and those of one more seed.
TargetKeys == GameKeys \cup {<<<<0, 20>>, w>> : w \in WinChanceInputs}

FreshGameRounds == {<<k, FreshGameRound(k[1], k[2])>> : k \in TargetKeys}
ParKeys ==
    {<<<<0, b + i>>, w>> : b \in ParBaseSeeds, i \in 0..(ParRounds - 1), w \in WinChanceInputs}

FreshSimRounds ==
    {<<k, FreshSimRound(k[1], k[2])>> : k \in SimKeys \cup GameKeys \cup ParKeys}

FreshGame(key) == (CHOOSE p \in FreshGameRounds : p[1] = key)[2]
FreshSim(key) == (CHOOSE p \in FreshSimRounds : p[1] = key)[2]

\* So far this round agrees with the reference: every phase entered was entered at
\* the reference's tick, no entry of the reference has been passed over, and the
\* result, once there, is the reference's.
Agrees(marks, n, result, ref) ==
    /\ \A p \in Phases :
          /\ marks[p] # 0 => marks[p] = ref.marks[p]
          /\ (ref.marks[p] # 0 /\ ref.marks[p] <= n) => marks[p] = ref.marks[p]
    /\ result \in {"win", "lose"} => result = ref.result

\* The outcome the first draw of a new stream fixes.
FirstDrawOutcome(seed, winChance) ==
    WordBelowPercent(RngNext(NewRng(seed)).word, winChance)

Roles(g) == <<g.dictators[1].role, g.dictators[2].role>>
InRound == Running(game.phase) \/ game.phase = "ended"

\* C1: in the Game the phase changes only along idle -> prewait -> preknife ->
\* kniferace -> chase -> ended, and ended -> prewait when a round is started: no
\* phase is skipped and none that was left is entered again within a round.
C1_PhaseOrder ==
    [][game'.phase # game.phase =>
         <<game.phase, game'.phase>> \in
            {<<"idle", "prewait">>, <<"prewait", "preknife">>, <<"preknife", "kniferace">>,
             <<"kniferace", "chase">>, <<"chase", "ended">>, <<"ended", "prewait">>}]_vars

\* A second round has gone through every phase.
C1_Witness ==
    /\ hist.round = 2
    /\ game.phase = "ended"
    /\ \A p \in Phases \ {"prewait"} : hist.marks[p] # 0
    /\ hist.marks["preknife"] < hist.marks["kniferace"]
    /\ hist.marks["kniferace"] < hist.marks["chase"]
    /\ hist.marks["chase"] < hist.marks["ended"]

\* C2: two independent runs of a round with the same seed and win probability go
\* through the same phases at the same ticks and end with the same result, in
\* the Game and in simulateRound: whatever was played before, and however the
\* frames fell, the round agrees with the round of a new instance.
C2_Deterministic ==
    /\ (Running(game.phase) \/ game.phase = "ended") =>
          Agrees(hist.marks, hist.tickNo, game.ui.status, FreshGame(RoundKey(game)))
    /\ sim # <<>> =>
          Agrees(shist.marks, shist.steps, sim[1].result, FreshSim(SimKey(sim[1])))

\* A second round, played at double speed after another round, has ended as the
\* round of a new Game with its seed and win chance ends.
C2_Witness ==
    /\ hist.round = 2
    /\ game.speedScale = 2
    /\ game.phase = "ended"
    /\ hist.marks = FreshGame(RoundKey(game)).marks
    /\ game.ui.status = FreshGame(RoundKey(game)).result

\* C3: for the same seed and win probability the Game round and simulateRound
\* enter each phase at the same tick and end with the same result, and the
\* timing constants of the two are equal.
C3_SameAsHeadless ==
    InRound =>
       /\ PREWAIT_DURATION = SIM_PREWAIT_DURATION
       /\ PREKNIFE_DURATION = SIM_PREKNIFE_DURATION
       /\ CHASE_DURATION = SIM_CHASE_DURATION
       /\ Agrees(hist.marks, hist.tickNo, game.ui.status, FreshSim(RoundKey(game)))

\* The draws one iteration of simulateRound takes in a phase.
SimDrawsIn(phase) ==
    LET s0 == simulateRoundEnter(NewRng(<<0, 1>>), NewOutcomeController(50), SimArena)
        s == [s0 EXCEPT !.prewaitDone = (phase # "prewait"),
                        !.knifeSpawned = (phase \in {"kniferace", "chase"}),
                        !.knifePickedUp = (phase = "chase")]
    IN  simulateRoundStep(s, SimArena).rng.draws - s.rng.draws

\* C4: the Game and simulateRound take the same number of draws between creating
\* the round's Rng and the first tick, and the same number in each tick of each
\* phase.
C4_SameDraws ==
    /\ [](Running(game.phase) /\ hist.tickNo = 0 =>
            game.rng.draws =
               simulateRoundEnter(NewRng(game.rng.seed),
                                  NewOutcomeController(game.outcome.winChance),
                                  SimArena).rng.draws)
    /\ [][Running(game.phase) /\ hist'.tickNo = hist.tickNo + 1 =>
            game'.rng.draws - game.rng.draws = SimDrawsIn(game.phase)]_vars

\* The result the exit of the chase gives the player.
ResultBy(exit, playerIsHunter) ==
    IF exit = "capture" THEN (IF playerIsHunter THEN "win" ELSE "lose")
    ELSE IF exit = "timeout" THEN (IF playerIsHunter THEN "lose" ELSE "win")
    ELSE "none"

\* C5: a round's result is set only by the chase exit: on a capture the player
\* wins iff the player's body is the hunter, otherwise on the chase timer running
\* out the player wins iff the player's body is the runner; capture decides when
\* both hold.  For the Game and for simulateRound.
C5_ResultByChaseExit ==
    /\ game.phase = "ended" =>
          /\ hist.exit \in {"capture", "timeout"}
          /\ game.ui.status = ResultBy(hist.exit, game.dictators[1].role = "hunter")
    /\ (sim # <<>> /\ sim[1].result # "none") =>
          /\ shist.exit \in {"capture", "timeout"}
          /\ sim[1].result = ResultBy(shist.exit, sim[1].playerIsHunter)

\* C6: a play command received in prewait, preknife, kniferace or chase changes
\* nothing of the Game (phase, timer, accumulator, bodies, RNG, targetWin, win
\* probability, balance): a round is started only from idle or ended.
C6_PlayIgnoredInRound ==
    Running(game.phase) =>
       \A state \in UiStates, randomSeed \in RandomSeeds :
          onPlay(game, state, randomSeed) = game

\* A chase is under way between two frames, with a part of a step accumulated and
\* draws taken: a play command can arrive here.
C6_Witness ==
    /\ game.phase = "chase"
    /\ pc = "idle"
    /\ game.accumulator = 1
    /\ game.rng.draws > 4
    /\ game.economy.balance < NewEconomy(STARTING_BALANCE).balance

C8_CeilingNotReached ==
    sim # <<>> =>
       /\ sim[1].tick < MAX_TICKS
       /\ sim[1].result # "none" => shist.exit \in {"capture", "timeout"}

\* C9: sampleOutcome is called once in a round, as the first draw of the round's
\* stream and before any steering; targetWin keeps that value until the round has
\* ended.  The draws before the first tick are the sample, the opponent and the two
\* angles; a tick of the Game draws for steering only.
C9_SampledOnceFirst ==
    /\ [](InRound =>
            /\ game.outcome.targetWin =
                  FirstDrawOutcome(game.rng.seed, game.outcome.winChance)
            /\ hist.tickNo = 0 => game.rng.draws = 4)
    /\ [](sim # <<>> =>
            sim[1].outcome.targetWin =
               FirstDrawOutcome(sim[1].rng.seed, sim[1].outcome.winChance))
    /\ [][Running(game.phase) =>
            /\ game'.outcome = game.outcome
            /\ game'.rng.draws - game.rng.draws \in {0, 1, 4}]_vars

\* A round whose first draw makes the player the target winner has ended in a
\* loss, after a chase in which draws were taken.
C9_Witness ==
    /\ game.phase = "ended"
    /\ game.outcome.targetWin
    /\ game.ui.status = "lose"
    /\ game.rng.draws > 4 + 4 * hist.marks["kniferace"]

\* C10: in prewait, preknife and kniferace both bodies have role none; in chase,
\* and in ended after a chase, one body is the hunter and the other the runner,
\* and the roles do not change after they are assigned.
C10_Roles ==
    /\ [](game.phase \in {"prewait", "preknife", "kniferace"} =>
            Roles(game) = <<"none", "none">>)
    /\ []((game.phase = "chase" \/ (game.phase = "ended" /\ hist.marks["chase"] # 0)) =>
            Roles(game) \in {<<"hunter", "runner">>, <<"runner", "hunter">>})
    /\ [][game.phase = "chase" => Roles(game') = Roles(game)]_vars

\* A chase with the opponent as the hunter has ended.
C10_Witness ==
    /\ game.phase = "ended"
    /\ Roles(game) = <<"runner", "hunter">>
    /\ hist.marks["chase"] # 0

\* C11: between events the status badge follows the phase: it shows "win" or
\* "lose" exactly when the phase is `ended`, "running" exactly in the four
\* phases of a round, and "ready" exactly when the phase is `idle`.
C11_StatusFollowsPhase ==
    /\ game.ui.status \in {"win", "lose"} <=> game.phase = "ended"
    /\ game.ui.status = "running" <=> Running(game.phase)
    /\ game.ui.status = "ready" <=> game.phase = "idle"

\* A second round has ended, after the badge went from the first result back to
\* "running".
C11_Witness ==
    /\ hist.round = MaxRounds
    /\ game.phase = "ended"
    /\ game.ui.status \in {"win", "lose"}
    /\ pc = "idle"

\* The Game with the other target outcome.
OtherTarget(g) == [g EXCEPT !.outcome.targetWin = ~@]

\* Among the rounds of a new Game, each target outcome is followed by a win in
\* one round and by a loss in another.
BothResultsReachable ==
    \A tw \in BOOLEAN, res \in {"win", "lose"} :
        \E k \in TargetKeys : FirstDrawOutcome(k[1], k[2]) = tw /\ FreshGame(k).result = res

\* C12: targetWin never forces the result of a round. The exit of the chase
\* gives the same verdict whichever value targetWin has, and for each value of
\* targetWin there is a round that ends in a win and a round that ends in a loss.
C12_TargetNeverForces ==
    /\ game.phase = "chase" =>
           chaseEnd(OtherTarget(game)).ui.status = chaseEnd(game).ui.status
    /\ BothResultsReachable

\* A round has ended in a win although its target outcome was a loss.
C12_Witness ==
    /\ game.phase = "ended"
    /\ ~game.outcome.targetWin
    /\ game.ui.status = "win"
    /\ hist.marks["chase"] > 0

\* C13: with the default bias, in every tick of the Game and of simulateRound
\* the bias part of what is applied to the player is at most a quarter of the
\* base quantity: the knife-phase bias impulse against the base knife-seek
\* impulse, and the steering and speed multipliers within [0.75, 1.25].
C13_BiasBounded ==
    /\ game.phase = "kniferace" =>
           4 * Abs(biasDelta(game.outcome)) <= MAX_KNIFE_SEEK_IMPULSE * SCALE
    /\ InRound =>
           /\ \A isHunter \in BOOLEAN :
                  steeringMultiplier(game.outcome, isHunter) \in 75..125
           /\ speedMultiplier(game.outcome) \in 75..125
    /\ sim # <<>> =>
           /\ SimPhase(sim[1]) = "kniferace" =>
                  4 * Abs(knifeAttractionStrength(sim[1].outcome) * SCALE)
                      <= MAX_KNIFE_SEEK_IMPULSE * SCALE
           /\ \A isHunter \in BOOLEAN :
                  steeringMultiplier(sim[1].outcome, isHunter) \in 75..125
           /\ speedMultiplier(sim[1].outcome) \in 75..125

\* maxSpeed * FIXED_DT: the chase speed times the largest speed multiplier, for
\* one step.
MaxStep ==
    RDiv(BASE_SPEED * CHASE_SPEED_MUL * SCALE * (100 + speedBonusWin) * FIXED_DT,
         100 * SECOND)

\* The body went from p0 to p1, no further than MaxStep (and the two units that
\* the rounding of the integration and of the push to the grid can add).
MovedWithin(p0, p1) == WithinDist(p1[1] - p0[1], p1[2] - p0[2], MaxStep + 2)

\* C14: in every tick, the position of each body at the end of the tick (after
\* integration, wall clamping and the push-apart of a collision) is at most
\* maxSpeed * FIXED_DT from its position at the start of the tick.
C14_NoTeleport ==
    [][/\ hist'.tickNo = hist.tickNo + 1 =>
              \A i \in 1..2 : MovedWithin(game.dictators[i].pos, game'.dictators[i].pos)
       /\ sim # <<>> /\ sim' # <<>> /\ shist'.steps = shist.steps + 1 =>
              /\ MovedWithin(sim[1].ePlayer.pos, sim'[1].ePlayer.pos)
              /\ MovedWithin(sim[1].eOpponent.pos, sim'[1].eOpponent.pos)]_vars

\* The centre of e lies in [left + radius, right - radius] x [top + radius,
\* bottom - radius] of the arena.
Contained(e, arena) ==
    /\ e.pos[1] \in (arena.left + e.radius)..(arena.right - e.radius)
    /\ e.pos[2] \in (arena.top + e.radius)..(arena.bottom - e.radius)

\* C15: immediately after bounceWalls(body, arena), for an arena at least twice
\* the radius wide and high and any position of the body before the call, the
\* centre of the body lies in [left + radius, right - radius] x [top + radius,
\* bottom - radius].
C15_WallContainment ==
    phys # <<>> /\ phys[1].called = "bounceWalls" =>
        /\ Contained(phys[1].a, phys[1].arena)
        /\ Contained(phys[1].b, phys[1].arena)

\* bounceWalls has returned for a body that was beyond the right wall and above
\* the top wall of the Game's arena.
C15_Witness ==
    /\ phys # <<>>
    /\ phys[1].called = "bounceWalls"
    /\ phys[1].arena = NewGame.arena
    /\ phys[1].a0.pos[1] > phys[1].arena.right
    /\ phys[1].a0.pos[2] < phys[1].arena.top

\* The centres of a and b are as far apart as the sum of the radii, to the two
\* units that rounding the push to the grid can add or take.
ApartByRadii(a, b) ==
    LET dx == b.pos[1] - a.pos[1]
        dy == b.pos[2] - a.pos[2]
        minDist == a.radius + b.radius
    IN  /\ dx * dx + dy * dy >= (minDist - 2) * (minDist - 2)
        /\ dx * dx + dy * dy <= (minDist + 2) * (minDist + 2)

\* The centres of a and b are closer than the sum of the radii.
Overlapping(a, b) ==
    (b.pos[1] - a.pos[1]) * (b.pos[1] - a.pos[1])
        + (b.pos[2] - a.pos[2]) * (b.pos[2] - a.pos[2])
            < (a.radius + b.radius) * (a.radius + b.radius)

Core(g) == [g EXCEPT !.accumulator = 0, !.speedScale = 1]

\* C17: every tick of the Game is executed with dt = FIXED_DT, so the state of a
\* round (phase, timer, positions, velocities, RNG, result) after its k-th tick
\* is the same for every sequence of frame deltas and every setting of the speed
\* button: a step is a tick that takes that state to what _tick(FIXED_DT) makes
\* of it, whatever the accumulator and the speed scale are, or the start of a
\* round, or it leaves that state alone.
C17_FixedStep ==
    [][\/ Core(game') = Core(game)
       \/ /\ hist'.tickNo = hist.tickNo + 1
          /\ Core(game') = Core(tick(Core(game), FIXED_DT))
          /\ game'.phase = game.phase /\ game.phase # "kniferace" =>
                 game'.phaseTimer = game.phaseTimer - FIXED_DT
       \/ /\ ~Running(game.phase)
          /\ hist'.round = hist.round + 1
          /\ hist'.tickNo = 0]_vars

\* A tick of the chase has been taken at double speed with half a step left in
\* the accumulator.
C17_Witness ==
    /\ game.phase = "chase"
    /\ game.speedScale = 2
    /\ game.accumulator = 1
    /\ hist.tickNo > hist.marks["chase"]

\* C18: in runSimulation round i is run with a new Rng(baseSeed + i), and its
\* result is that of simulateRound called by itself with a new Rng(baseSeed + i)
\* and the same win chance, whatever the rounds before it did.
C18_RoundsIndependent ==
    sim # <<>> =>
        /\ sim[1].rng.seed = <<0, batch.baseSeed + batch.i>>
        /\ sim[1].outcome.winChance = batch.winChance
        /\ shist.steps = 0 => sim[1].rng.draws = 3
        /\ sim[1].result # "none" =>
               sim[1].result =
                   FreshSim(<<<<0, batch.baseSeed + batch.i>>, batch.winChance>>).result

\* The second round of a batch has returned, after a first round that was won
\* and left its target outcome in the shared controller.
C18_Witness ==
    /\ sim # <<>>
    /\ batch.i = 1
    /\ batch.wins = 1
    /\ sim[1].result # "none"

\* C19: the rounds of a batch share no mutable state, so that if the loop
\* iterations of two rounds are interleaved, each round returns the result it
\* returns when it is run by itself.
C19_InterleavingSafe ==
    \A j \in DOMAIN sim :
        sim[j] # <<>> /\ sim[j][1].result # "none" =>
            sim[j][1].result =
                FreshSim(<<<<0, batch.baseSeed + j - 1>>, batch.winChance>>).result

\* The rounds of the batch that simulateRound, called by itself, returns true for.
RoundsWon(b) ==
    {i \in 0..(b.rounds - 1) :
        FreshSim(<<<<0, b.baseSeed + i>>, b.winChance>>).result = "win"}

\* C20: the record runSimulation returns has wins + losses = rounds, totalBet =
\* rounds * betAmount, totalPayout = wins * betAmount * 1.9, observedWinRate =
\* wins / rounds, rtp = totalPayout / totalBet and expectedRtp = 1.9 * winChance,
\* where wins is the number of rounds whose simulateRound returned true.
C20_BatchTotals ==
    batch.status = "done" =>
        LET r == batch.result[1]
            wins == Cardinality(RoundsWon(batch))
        IN  /\ r.rounds = batch.rounds
            /\ r.wins = wins
            /\ r.wins + r.losses = batch.rounds
            /\ r.totalBet = batch.rounds * batch.betAmount
            /\ 10 * r.totalPayout = wins * batch.betAmount * PAYOUT_MUL
            /\ r.observedWinRate = RDiv(wins * 1000, batch.rounds)
            /\ r.rtp * r.totalBet <= r.totalPayout * 1000 + r.totalBet \div 2
            /\ r.rtp * r.totalBet >= r.totalPayout * 1000 - r.totalBet \div 2
            /\ r.expectedRtp = PAYOUT_MUL * batch.winChance

\* A batch has returned with one round won and one lost.
C20_Witness ==
    /\ batch.status = "done"
    /\ batch.result[1].wins = 1
    /\ batch.result[1].losses = 1
    /\ batch.result[1].totalPayout > 0

\* Four standard deviations of the win rate of n independent rounds, at most, in
\* thousandths: 4 * sqrt(1/4 / n).
SamplingError(n) == 2000 \div ISqrt(n)

\* C21: for each configured win probability p a batch yields an observed win
\* rate within 0.02 of p and a realized RTP within 0.02 of 1.9 * p (for a batch
\* shorter than 100000 rounds, within 0.02 and the sampling error of its length).
C21_Calibrated ==
    batch.status = "done" =>
        LET r == batch.result[1]
            e == SamplingError(r.rounds)
        IN  /\ Abs(r.observedWinRate - 10 * batch.winChance) <= 20 + e
            /\ Abs(r.rtp - r.expectedRtp) <= 20 + (PAYOUT_MUL * e) \div 10

\* C22: after reset() the values next() returns are those of a newly constructed
\* Rng with the same seed, whatever the seed and however many calls of next()
\* came before; and two Rng objects with the same seed, called in the same
\* order, return the same values.
C22_ResetRestarts ==
    unit # <<>> =>
        /\ ~unit[1].wasReset => unit[1].wordsA = unit[1].wordsB
        /\ unit[1].wasReset => unit[1].wordsA = unit[1].wordsC

\* A generator reset after three calls has returned two more values.
C22_Witness ==
    /\ unit # <<>>
    /\ unit[1].wasReset
    /\ unit[1].pre = 3
    /\ Len(unit[1].wordsA) = 2
    /\ unit[1].wordsA[1] # unit[1].wordsA[2]

\* C23: the win probability an OutcomeController holds is between 0 and 1 in
\* every reachable state, after construction with any argument and after
\* setWinChance with any argument.
C23_WinChanceInRange ==
    unit # <<>> => unit[1].oc.winChance >= 0 /\ unit[1].oc.winChance <= 100

\* The stages of a tick after the steering, in the order of C24: each body is
\* brought to its speed, integrated and bounced off the walls, and then the
\* two are bounced off each other.
StagedMove(a, speedA, b, speedB, dt, arena) ==
    bounceEntities(bounceWalls(integrateEntity(normalizeSpeed(a, speedA), dt), arena),
                   bounceWalls(integrateEntity(normalizeSpeed(b, speedB), dt), arena))

\* What StagedMove makes of the Game's dictators after the phase's steering.
StagedTick(g) ==
    LET be == StagedMove(g.dictators[1], currentSpeed(g.dictators[1]),
                         g.dictators[2], currentSpeed(g.dictators[2]),
                         FIXED_DT, g.arena)
    IN  <<be.a, be.b>>

\* What StagedMove makes of simulateRound's bodies after the branch's steering.
StagedStep(s) ==
    LET be == StagedMove(s.ePlayer, RDiv(SIM_BASE_SPEED * SCALE * s.ePlayer.speedMul, 100),
                         s.eOpponent, SIM_BASE_SPEED * SCALE, SIM_FIXED_DT, SimArena)
    IN  <<be.a, be.b>>

\* C24: in every tick that does not end the round, in every phase and in both
\* execution paths, each body is first steered by the phase, then brought to its
\* speed, then integrated, then bounced off the walls; the collision between the
\* two bodies is resolved after the wall bounce of both, and the bodies the tick
\* leaves are the ones the collision step returned.
C24_TickOrder ==
    [][/\ hist'.tickNo = hist.tickNo + 1 /\ game'.phase # "ended" =>
            game'.dictators = StagedTick(tickPhase(game, FIXED_DT))
       /\ sim # <<>> /\ sim' # <<>> /\ sim'[1].tick = sim[1].tick + 1 =>
            <<sim'[1].ePlayer, sim'[1].eOpponent>> =
                StagedStep(simBranch(sim[1], SIM_FIXED_DT, SimArena))]_vars

\* Ticks of a chase have been taken, and the last one has left a dictator where
\* the wall bounce puts it.
C24_Witness ==
    /\ game.phase = "chase"
    /\ hist.tickNo > hist.marks["chase"]
    /\ \E i \in 1..2 :
           game.dictators[i].pos[1] \in
               {game.arena.left + game.dictators[i].radius,
                game.arena.right - game.dictators[i].radius}

\* BASE_SPEED * CHASE_SPEED_MUL * mul, mul in percent
ChaseSpeed(mul) == RDiv(BASE_SPEED * CHASE_SPEED_MUL * SCALE * mul, 100)

\* The speed of e is the target, within the rounding of a normalisation.
SpeedIs(e, target) == Abs(Speed(e) - target) <= 2

\* The two bodies are where a collision leaves them: a sum of radii apart, within
\* rounding.
Touching(a, b) ==
    WithinDist(a.pos[1] - b.pos[1], a.pos[2] - b.pos[2], a.radius + b.radius + 2)

\* A chase tick of the Game that did not end the round integrated its bodies at
\* the chase speed: the velocities it leaves have that length unless the two
\* bodies collided in it.
GameChaseSpeed ==
    game.phase = "chase" /\ game'.phase = "chase" /\ hist'.tickNo = hist.tickNo + 1 =>
        \/ Touching(game'.dictators[1], game'.dictators[2])
        \/ /\ SpeedIs(game'.dictators[1], ChaseSpeed(speedMultiplier(game.outcome)))
           /\ SpeedIs(game'.dictators[2], ChaseSpeed(100))

\* The same for an iteration of simulateRound in the chase.
SimChaseSpeed ==
    (/\ sim # <<>>
     /\ sim' # <<>>
     /\ SimPhase(sim[1]) = "chase"
     /\ sim'[1].tick = sim[1].tick + 1) =>
        \/ Touching(sim'[1].ePlayer, sim'[1].eOpponent)
        \/ /\ SpeedIs(sim'[1].ePlayer, ChaseSpeed(speedMultiplier(sim[1].outcome)))
           /\ SpeedIs(sim'[1].eOpponent, ChaseSpeed(100))

\* C25: in every chase tick, on both execution paths, each body is integrated at
\* BASE_SPEED * CHASE_SPEED_MUL times its speed multiplier (speedMultiplier()
\* for the player's body, 1 for the opponent's).
C25_ChaseSpeed == [][GameChaseSpeed /\ SimChaseSpeed]_vars

\* The squared distance of an offset from the knife, in pixels.
OffsetDist2(d) == d[1] * d[1] + d[2] * d[2]

\* C26: at the pickup the body strictly nearer to the knife becomes the hunter,
\* and the hunter is a body within the pickup radius; on an exact tie the second
\* body, the opponent's, becomes the hunter; both execution paths apply this rule.
C26_NearerIsHunter ==
    unit # <<>> /\ unit[1].picked =>
        LET a == OffsetDist2(unit[1].da)
            b == OffsetDist2(unit[1].db)
            r == BALL_RADIUS + KNIFE_RADIUS
        IN  /\ a < b => unit[1].hunter = 1
            /\ b < a => unit[1].hunter = 2
            /\ a = b => unit[1].hunter = 2
            /\ unit[1].hunter = 1 => a <= r * r
            /\ unit[1].hunter = 2 => b <= r * r

\* Both bodies are on the pickup radius, at the same distance from the knife,
\* and simulateRound has assigned the roles.
C26_Witness ==
    /\ unit # <<>>
    /\ unit[1].called = "simulateRound"
    /\ unit[1].picked
    /\ unit[1].da = <<-48, 0>>
    /\ unit[1].db = <<0, 48>>
    /\ unit[1].hunter = 2

\* The centre of body e is within the pickup distance r of the knife at k.
InPickupRange(e, k, r) == WithinDist(e.pos[1] - k[1], e.pos[2] - k[2], r)

\* One of the Game's dictators is within BALL_RADIUS + knife radius of the knife.
GameInRange(g) ==
    \E i \in 1..2 : InPickupRange(g.dictators[i], g.knife[1].pos,
                                  BALL_RADIUS * SCALE + g.knife[1].radius)

\* One of simulateRound's bodies is within the pickup distance of the centre.
SimInRange(s) ==
    \E e \in {s.ePlayer, s.eOpponent} :
        InPickupRange(e, <<SimArena.centerX, SimArena.centerY>>,
                      (SIM_BALL_RADIUS + SIM_KNIFE_RADIUS) * SCALE)

\* C27: the knife race ends in the first knife-race tick in which the centre of
\* either body is within BALL_RADIUS + knife radius of the knife, the phase
\* becoming chase in that same tick, and the phase never becomes chase in a tick
\* in which neither body is within that distance.
C27_PickupTick ==
    [][/\ game.phase = "kniferace" /\ hist'.tickNo = hist.tickNo + 1 =>
            (game'.phase = "chase" <=> GameInRange(game))
       /\ game'.phase = "chase" /\ game.phase # "chase" =>
            game.phase = "kniferace" /\ GameInRange(game)
       /\ (/\ sim # <<>> /\ sim' # <<>>
           /\ SimPhase(sim[1]) = "kniferace"
           /\ sim'[1].tick = sim[1].tick + 1) =>
            (SimPhase(sim'[1]) = "chase" <=> SimInRange(sim[1]))
       /\ (/\ sim # <<>> /\ sim' # <<>>
           /\ SimPhase(sim'[1]) = "chase"
           /\ SimPhase(sim[1]) # "chase") =>
            SimPhase(sim[1]) = "kniferace" /\ SimInRange(sim[1])]_vars

\* The Game has just entered the chase, several ticks into the knife race, with
\* the opponent's dictator as the hunter.
C27_Witness ==
    /\ game.phase = "chase"
    /\ hist.marks["chase"] = hist.tickNo
    /\ hist.marks["chase"] > hist.marks["kniferace"] + 1
    /\ game.dictators[2].role = "hunter"

\* ceil(CHASE_DURATION / FIXED_DT)
MaxChaseTicks == (CHASE_DURATION + FIXED_DT - 1) \div FIXED_DT

\* C28: the chase lasts at most ceil(CHASE_DURATION / FIXED_DT) ticks: its timer
\* starts at CHASE_DURATION when the roles are assigned, goes down by FIXED_DT in
\* every chase tick, and the tick in which it reaches zero or less ends the round
\* if no capture ended it before.
C28_ChaseBounded ==
    [][/\ game'.phase = "chase" /\ game.phase # "chase" =>
            game'.phaseTimer = CHASE_DURATION
       /\ game.phase = "chase" /\ hist'.tickNo = hist.tickNo + 1 =>
            /\ game'.phaseTimer = game.phaseTimer - FIXED_DT
            /\ game'.phaseTimer <= 0 => game'.phase = "ended"
            /\ hist'.tickNo - hist.marks["chase"] <= MaxChaseTicks
       /\ (sim # <<>> /\ sim' # <<>> /\ SimPhase(sim'[1]) = "chase"
           /\ SimPhase(sim[1]) # "chase") =>
            sim'[1].chaseTimer = SIM_CHASE_DURATION
       /\ (sim # <<>> /\ sim' # <<>> /\ SimPhase(sim[1]) = "chase"
           /\ shist'.steps = shist.steps + 1 /\ sim[1].tick < MAX_TICKS) =>
            /\ sim'[1].chaseTimer = sim[1].chaseTimer - SIM_FIXED_DT
            /\ sim'[1].chaseTimer <= 0 => sim'[1].result # "none"
            /\ shist'.steps - shist.marks["chase"] <= MaxChaseTicks]_vars

\* A chase of the Game has run its full length and was ended by the timer.
C28_Witness ==
    /\ game.phase = "ended"
    /\ hist.exit = "timeout"
    /\ game.phaseTimer = 0
    /\ hist.tickNo - hist.marks["chase"] = MaxChaseTicks

\* C29: when simulateRound reaches the tick ceiling it returns true exactly if
\* the roles have been assigned and the player's body is the runner.
C29_FallbackResult ==
    sim # <<>> /\ sim[1].tick >= MAX_TICKS /\ sim[1].result # "none" =>
        (sim[1].result = "win" <=> sim[1].knifePickedUp /\ ~sim[1].playerIsHunter)

\* C30: in _update during a running round the ticks are taken one at a time
\* while the accumulator holds at least FIXED_DT, each taking FIXED_DT off it;
\* when _update returns with the round not ended the accumulator is at least 0
\* and less than FIXED_DT, so that the ticks executed are
\* floor((accumulator before + dt) / FIXED_DT); no tick is executed after the
\* tick that ends the round; and the accumulator is 0 at the start of every round.
C30_Accumulator ==
    [][/\ hist'.tickNo = hist.tickNo + 1 =>
            /\ Running(game.phase)
            /\ game.accumulator >= FIXED_DT
            /\ game'.accumulator = game.accumulator - FIXED_DT
       /\ pc' = "idle" /\ Running(game'.phase) =>
            game'.accumulator >= 0 /\ game'.accumulator < FIXED_DT
       /\ pc' = "loop" => Running(game'.phase) /\ game'.accumulator >= FIXED_DT
       /\ hist'.round = hist.round + 1 => game'.accumulator = 0 /\ hist'.tickNo = 0]_vars

\* A round was ended by the first of the ticks an update had to take: at least
\* one step is left in the accumulator.
C30_Witness ==
    /\ game.phase = "ended"
    /\ pc = "idle"
    /\ game.accumulator >= FIXED_DT

\* The steering multiplier C31 states for the dictator at index i, in percent:
\* the role's bonus or penalty for the player's, 1 for the opponent's.
BiasedSteerMul(g, i) ==
    IF i # 1 THEN 100
    ELSE IF g.dictators[1].role = "hunter"
    THEN 100 + (IF g.outcome.targetWin THEN hunterBonusWin ELSE hunterPenaltyLose)
    ELSE 100 + (IF g.outcome.targetWin THEN runnerBonusWin ELSE runnerPenaltyLose)

\* The dictators of g after a chase steering with the multipliers of C31.
BiasedChase(g) ==
    LET h == FindRole(g.dictators, "hunter")
        r == FindRole(g.dictators, "runner")
        hs == applyHunterSteering(g.dictators[h], g.dictators[r], FIXED_DT,
                                  BiasedSteerMul(g, h))
        rs == applyRunnerSteering(g.dictators[r], hs, g.rng, FIXED_DT,
                                  BiasedSteerMul(g, r)).e
    IN  IF h = 1 THEN <<hs, rs>> ELSE <<rs, hs>>

\* C31: the bias follows the player's current role and touches only the player's
\* body: in every chase tick the player's body is steered with 1 + the hunter
\* bonus or penalty when it is the hunter and 1 + the runner bonus or penalty
\* when it is the runner (bonus for targetWin, penalty otherwise), and the
\* opponent's steering multiplier, speed multiplier and knife bias are 1, 1, 0.
C31_BiasFollowsRole ==
    [][/\ (/\ game.phase = "kniferace" /\ game'.phase = "kniferace"
           /\ hist'.tickNo = hist.tickNo + 1) =>
            game'.dictators =
                StagedTick([game EXCEPT !.dictators =
                    <<applyKnifeSeekSteering(game.dictators[1], game.knife[1].pos[1],
                                             game.knife[1].pos[2], FIXED_DT,
                                             biasDelta(game.outcome)),
                      applyKnifeSeekSteering(game.dictators[2], game.knife[1].pos[1],
                                             game.knife[1].pos[2], FIXED_DT, 0)>>])
       /\ game.phase = "chase" /\ hist'.tickNo = hist.tickNo + 1 =>
            game'.dictators =
                IF game'.phase = "ended" THEN BiasedChase(game)
                ELSE StagedTick([game EXCEPT !.dictators = BiasedChase(game)])
       /\ Running(game'.phase) =>
            /\ game'.dictators[2].speedMul = 100
            /\ game'.dictators[1].speedMul =
                   100 + (IF game'.outcome.targetWin THEN speedBonusWin
                          ELSE speedPenaltyLose)]_vars

\* Ticks of a chase have been taken in which the opponent's dictator is the
\* hunter and the player's, the runner, is favoured.
C31_Witness ==
    /\ game.phase = "chase"
    /\ hist.tickNo > hist.marks["chase"] + 1
    /\ game.dictators[2].role = "hunter"
    /\ game.dictators[1].role = "runner"
    /\ game.outcome.targetWin

\* C32: at win probability 0 and at win probability 1 the bias is removed: for
\* every seed the knife-phase bias is 0 and the steering and speed multipliers
\* are 1 once the outcome of the round has been sampled.
C32_NoBiasAtExtremes ==
    (/\ unit # <<>>
     /\ unit[1].called = "sampleOutcome"
     /\ unit[1].oc.winChance \in {0, 100}) =>
        /\ knifeAttractionStrength(unit[1].oc) = 0
        /\ steeringMultiplier(unit[1].oc, TRUE) = 100
        /\ steeringMultiplier(unit[1].oc, FALSE) = 100
        /\ speedMultiplier(unit[1].oc) = 100

\* One axis of a wall bounce as C33 states it: beyond a bound the position is
\* the bound +/- radius and the velocity component has changed its sign.
AxisFlipped(p0, v0, p1, v1, r, lo, hi) ==
    IF p0 - r < lo THEN p1 = lo + r /\ v1 = -v0
    ELSE IF p0 + r > hi THEN p1 = hi - r /\ v1 = -v0
    ELSE p1 = p0 /\ v1 = v0

\* One axis of a wall bounce that turns the velocity component into the arena:
\* a change of sign exactly when the component pointed out of it.
AxisTurnedInward(p0, v0, p1, v1, r, lo, hi) ==
    IF p0 - r < lo THEN p1 = lo + r /\ v1 = Abs(v0)
    ELSE IF p0 + r > hi THEN p1 = hi - r /\ v1 = -Abs(v0)
    ELSE p1 = p0 /\ v1 = v0

SameSpeed(e0, e1) ==
    e0.vel[1] * e0.vel[1] + e0.vel[2] * e0.vel[2]
        = e1.vel[1] * e1.vel[1] + e1.vel[2] * e1.vel[2]

\* Body e1 is what a wall bounce that flips makes of e0.
WallFlipped(e0, e1, arena) ==
    /\ AxisFlipped(e0.pos[1], e0.vel[1], e1.pos[1], e1.vel[1], e0.radius,
                   arena.left, arena.right)
    /\ AxisFlipped(e0.pos[2], e0.vel[2], e1.pos[2], e1.vel[2], e0.radius,
                   arena.top, arena.bottom)
    /\ SameSpeed(e0, e1)

\* Body e1 is what a wall bounce that turns the velocity inward makes of e0.
WallTurnedInward(e0, e1, arena) ==
    /\ AxisTurnedInward(e0.pos[1], e0.vel[1], e1.pos[1], e1.vel[1], e0.radius,
                        arena.left, arena.right)
    /\ AxisTurnedInward(e0.pos[2], e0.vel[2], e1.pos[2], e1.vel[2], e0.radius,
                        arena.top, arena.bottom)
    /\ SameSpeed(e0, e1)

\* C33: bounceWalls, on each axis where the leading edge of the body is beyond a
\* bound, sets the position to that bound +/- radius and flips the sign of that
\* axis's velocity component, whatever the velocity on entry; on an axis with no
\* crossing position and velocity are unchanged; the speed is the same before
\* and after the call.
C33_WallFlip ==
    phys # <<>> /\ phys[1].called = "bounceWalls" =>
        /\ WallFlipped(phys[1].a0, phys[1].a, phys[1].arena)
        /\ WallFlipped(phys[1].b0, phys[1].b, phys[1].arena)

\* C33, amended: beyond a bound the position is set to the bound +/- radius and
\* the velocity component is made to point into the arena (its absolute value at
\* the left and top bounds, minus that at the right and bottom bounds), which
\* flips its sign only if it pointed outward; the rest as stated.
C33_WallTurnsInward ==
    phys # <<>> /\ phys[1].called = "bounceWalls" =>
        /\ WallTurnedInward(phys[1].a0, phys[1].a, phys[1].arena)
        /\ WallTurnedInward(phys[1].b0, phys[1].b, phys[1].arena)

\* bounceWalls has returned for a body that was one unit beyond the left bound
\* of the Game's arena and moving to the right: it moves to the right still.
C33_Witness ==
    /\ phys # <<>>
    /\ phys[1].called = "bounceWalls"
    /\ phys[1].arena = NewGame.arena
    /\ phys[1].a0.pos[1] = phys[1].arena.left + phys[1].a0.radius - 1
    /\ phys[1].a0.vel[1] > 0
    /\ phys[1].a.vel[1] = phys[1].a0.vel[1]
    /\ phys[1].a.pos[1] = phys[1].arena.left + phys[1].a0.radius

\* C34: from the start of a round until it ends the arena bounds and centre used
\* for the wall bounce and for the knife position do not change: resize() called
\* while the phase is prewait, preknife, kniferace or chase does not alter the
\* arena of the round in progress.
C34_ArenaFixedInRound ==
    [][Running(game.phase) /\ Running(game'.phase) /\ hist'.round = hist.round =>
           game'.arena = game.arena]_vars

\* The knife exists and its container is visible.
KnifeVisible(g) == g.knife # <<>> /\ g.knife[1].visible

\* C35: in every reachable state of the Game the knife is visible exactly if the
\* phase is kniferace; while it is visible it sits at the arena centre; and the
\* picked-up flag is false from the start of a round until the pickup and true
\* from the pickup until the next round starts.
C35_KnifeLifecycle ==
    /\ KnifeVisible(game) <=> game.phase = "kniferace"
    /\ KnifeVisible(game) =>
           game.knife[1].pos = <<game.arena.centerX, game.arena.centerY>>
    /\ game.phase \in {"idle", "prewait", "preknife", "kniferace"} => ~game.knifePickedUp
    /\ game.phase \in {"chase", "ended"} => game.knifePickedUp

\* The knife of the first round is shown again in the knife race of the second.
C35_Witness ==
    /\ hist.round = 2
    /\ game.phase = "kniferace"
    /\ KnifeVisible(game)
    /\ ~game.knifePickedUp

\* What C36 names of a Game: phase, timer, bodies with their roles, RNG state,
\* status badge and balance.
Held(g) == <<g.phase, g.phaseTimer, g.dictators, g.rng, g.ui.status, g.economy.balance>>

\* C36: the phase ended is terminal: while the phase is ended (and likewise
\* idle) the frame updates execute no tick and leave phase, timer, bodies, roles,
\* RNG state, status badge and balance as they are; only an accepted play
\* command leaves the phase, and it starts a round.
C36_EndedIsTerminal ==
    [][~Running(game.phase) =>
           \/ /\ Held(game') = Held(game)
              /\ hist' = hist
              /\ pc' = "idle"
           \/ /\ game'.phase = "prewait"
              /\ hist'.round = hist.round + 1
              /\ hist'.tickNo = 0]_vars

\* A lost round has ended with part of a step left in the accumulator, and the
\* ticker goes on calling _update.
C36_Witness ==
    /\ game.phase = "ended"
    /\ game.ui.status = "lose"
    /\ game.accumulator = 1
    /\ pc = "idle"
    /\ hist.round = MaxRounds

PlayEvents == {"popupButton", "space", "playButton"}

\* C37: the expiry of the popup's auto-close timer only hides the popup and
\* starts no round; a round starts only on a click of the popup's button, a
\* Space key press or a click of the Play button; at most one auto-close timer
\* is pending at any time, and closing the popup cancels it.
C37_AutoCloseOnlyHides ==
    [][/\ unit'[1].called = "expire" =>
              /\ ~unit'[1].ui.popupVisible
              /\ unit'[1].rounds = unit[1].rounds
              /\ unit'[1].ui.status = unit[1].ui.status
       /\ unit'[1].rounds # unit[1].rounds =>
              /\ unit'[1].called \in PlayEvents
              /\ unit'[1].rounds = unit[1].rounds + 1
       /\ Len(unit'[1].timers) <= 1
       /\ unit'[1].ui.autoCloseTimer <=> unit'[1].timers # <<>>
       /\ unit[1].ui.popupVisible /\ ~unit'[1].ui.popupVisible =>
              unit'[1].timers = <<>>]_vars

\* The timer of the last round's popup has expired: the popup is hidden, the
\* result stays on the status badge and no timer is pending.
C37_Witness ==
    /\ unit # <<>>
    /\ unit[1].called = "expire"
    /\ unit[1].rounds = MaxRounds
    /\ unit[1].ui.status = "win"
    /\ ~unit[1].ui.popupVisible
    /\ unit[1].timers = <<>>

\* The play commands of the page whose bet exceeds the balance of g.
OverBalance(g) == {state \in UiStates : state.betAmount > g.economy.balance}

\* C38: a play command whose bet exceeds the balance is rejected with no
\* effect: the balance, the last bet, the phase, the win probability, targetWin,
\* the generator, the seed display and the status badge are as before, and no
\* round starts.
C38_RejectedBetNoEffect ==
    \A state \in OverBalance(game) : \A randomSeed \in RandomSeeds :
        \E after \in {onPlay(game, state, randomSeed)} :
            /\ after.economy = game.economy
            /\ after.lastBet = game.lastBet
            /\ after.phase = game.phase
            /\ after.phaseTimer = game.phaseTimer
            /\ after.outcome = game.outcome
            /\ after.rng = game.rng
            /\ after.ui = game.ui
            /\ after.dictators = game.dictators
            /\ after = game

\* A won round has ended, the page may start another one, and there is a play
\* command whose bet is more than the balance.
C38_Witness ==
    /\ PageProcess
    /\ pc = "idle"
    /\ game.phase = "ended"
    /\ game.ui.status = "win"
    /\ hist.round < MaxRounds
    /\ game.economy.balance > STARTING_BALANCE * 100
    /\ OverBalance(game) # {}

\* floor(bet x 1.9 x 100) / 100, the bet and the result in hundredths
Payout(bet) == (bet * 190) \div 100

\* C39: the balance is never negative; a round that starts deducts its bet
\* once, at its start; the payout floor(bet x 1.9 x 100) / 100 is credited
\* once, at the end of a round that is won, and nothing is credited at the end
\* of a round that is lost; no other step changes the balance.
C39_BalanceAccounting ==
    [][/\ game'.economy.balance >= 0
       /\ IF ~Running(game.phase) /\ Running(game'.phase)
          THEN /\ game'.lastBet \in BetInputs
               /\ game'.economy.lastBet = game'.lastBet
               /\ game'.economy.balance = game.economy.balance - game'.lastBet
          ELSE IF Running(game.phase) /\ game'.phase = "ended"
          THEN /\ hist'.exit \in {"capture", "timeout"}
               /\ game'.lastBet = game.lastBet
               /\ game'.economy.balance =
                      game.economy.balance
                      + IF ResultBy(hist'.exit, game'.dictators[1].role = "hunter") = "win"
                        THEN Payout(game.lastBet) ELSE 0
          ELSE game'.economy.balance = game.economy.balance]_vars

\* Two rounds have ended, one lost and one won: two bets were deducted and one
\* payout was credited.
C39_Witness ==
    /\ game.phase = "ended"
    /\ hist.round = 2
    /\ game.lastBet = 1000
    /\ game.economy.balance = STARTING_BALANCE * 100 - 2 * 1000 + Payout(1000)

\* C40: at the end of every tick, after the collision of the bodies has pushed
\* overlapping bodies apart, the centres of both bodies lie in [left + radius,
\* right - radius] x [top + radius, bottom - radius] of the arena.  For the Game
\* and for simulateRound.
C40_ContainedAfterTick ==
    [][/\ hist'.tickNo = hist.tickNo + 1 =>
              \A i \in 1..2 : Contained(game'.dictators[i], game'.arena)
       /\ sim # <<>> /\ sim' # <<>> /\ shist'.steps = shist.steps + 1 =>
              /\ Contained(sim'[1].ePlayer, SimArena)
              /\ Contained(sim'[1].eOpponent, SimArena)]_vars

====
